---- MODULE Spec2Model ----
(***************************************************************************)
(* A model of the file-system MCP server (fs_server.py, media_utils.py).    *)
(*                                                                         *)
(* A character is a one-character string ("LF" and "CR" stand for the line *)
(* feed and the carriage return, "I_DOT" for the capital I with a dot      *)
(* above, U+0130, and "DOT_ABOVE" for the combining dot, U+0307).  A file  *)
(* name and a file content are sequences of characters, a path is the      *)
(* sequence of the names below the directory the server works in, and the  *)
(* filesystem is a function from the paths that exist to their nodes.      *)
(***************************************************************************)
EXTENDS Integers, Sequences, FiniteSets, TLC

VARIABLES
    fs,     \* the filesystem: existing path -> [kind, content]
    call,   \* the last tool call: its name and arguments
    pre,    \* the filesystem as it was when the last call started
    res     \* the payload the last call returned

vars == <<fs, call, pre, res>>

(***************************************************************************)
(* Bounds of the model.                                                    *)
(***************************************************************************)
\* no file grows beyond MaxLen characters (writes that would are not issued)
MaxLen == 2
\* max_results of search_file_contents is drawn from 0..MaxResults
MaxResults == 2
\* the long texts are written while fewer than MaxTextFiles files exist
MaxTextFiles == 1
\* collections are made while no more than MaxCollections manifests exist
MaxCollections == 1

(***************************************************************************)
(* Characters and strings.                                                 *)
(***************************************************************************)
UpperCase == <<"A","B","C","D","E","F","G","H","I","J","K","L","M",
               "N","O","P","Q","R","S","T","U","V","W","X","Y","Z">>
LowerCase == <<"a","b","c","d","e","f","g","h","i","j","k","l","m",
               "n","o","p","q","r","s","t","u","v","w","x","y","z">>

\* str.lower() on one character
lower_char(c) ==
    IF \E i \in 1..26 : UpperCase[i] = c
    THEN LowerCase[CHOOSE i \in 1..26 : UpperCase[i] = c]
    ELSE c

\* str.lower() where the capital I with a dot above occurs: it becomes two
\* characters, an i and the combining dot above
RECURSIVE lower_expanding(_)
lower_expanding(s) ==
    IF s = <<>> THEN <<>>
    ELSE (IF s[1] = "I_DOT" THEN <<"i", "DOT_ABOVE">> ELSE <<lower_char(s[1])>>)
         \o lower_expanding(Tail(s))

\* str.lower()
lower(s) ==
    IF \E i \in 1..Len(s) : s[i] = "I_DOT"
    THEN lower_expanding(s)
    ELSE [i \in 1..Len(s) |-> lower_char(s[i])]

\* s[i:j] of Python, with 0 <= i and j <= len(s)
Slice(s, i, j) == IF j <= i THEN <<>> ELSE SubSeq(s, i + 1, j)

\* str.find(q): the 0-based index of the first occurrence of q in s, or -1
find(s, q) ==
    LET hits == {i \in 0..(Len(s) - Len(q)) : Slice(s, i, i + Len(q)) = q}
    IN  IF hits = {} THEN -1 ELSE CHOOSE i \in hits : \A j \in hits : i <= j

\* q in s
contains(s, q) == find(s, q) >= 0

\* str.count(c) for a one-character c
count(s, c) == Cardinality({i \in 1..Len(s) : s[i] = c})

(***************************************************************************)
(* Paths.                                                                  *)
(***************************************************************************)
Root == <<>>

\* os.path.basename
basename(p) == IF p = Root THEN <<>> ELSE p[Len(p)]

\* os.path.dirname(os.path.abspath(p))
dirname(p) == IF p = Root THEN Root ELSE SubSeq(p, 1, Len(p) - 1)

\* os.path.join(directory, name)
join(d, n) == Append(d, n)

\* os.path.splitext(p)[1]: from the last dot of the base name, unless only
\* dots precede it
splitext_ext(p) ==
    LET n    == basename(p)
        dots == {i \in 1..Len(n) : n[i] = "."}
        last == IF dots = {} THEN 0 ELSE CHOOSE i \in dots : \A j \in dots : j <= i
    IN  IF last = 0 \/ (\A j \in 1..(last - 1) : n[j] = ".")
        THEN <<>>
        ELSE SubSeq(n, last, Len(n))

(***************************************************************************)
(* The classifier.                                                         *)
(***************************************************************************)
NoMime == [top |-> "", sub |-> ""]

\* the table of mimetypes, the standard table of the Python library, for
\* the lower-cased extension e (the entries for the extensions the model
\* uses, on which the built-in and the system tables agree)
types_map(e) ==
        CASE e = <<".","t","x","t">> -> [top |-> "text", sub |-> "plain"]
          [] e = <<".","p","y">> -> [top |-> "text", sub |-> "x-python"]
          [] e = <<".","c","s","v">> -> [top |-> "text", sub |-> "csv"]
          [] e = <<".","h","t","m","l">> -> [top |-> "text", sub |-> "html"]
          [] e = <<".","c","s","s">> -> [top |-> "text", sub |-> "css"]
          [] e = <<".","j","p","g">> -> [top |-> "image", sub |-> "jpeg"]
          [] e = <<".","p","n","g">> -> [top |-> "image", sub |-> "png"]
          [] e = <<".","m","p","4">> -> [top |-> "video", sub |-> "mp4"]
          [] e = <<".","m","p","3">> -> [top |-> "audio", sub |-> "mpeg"]
          [] e = <<".","p","d","f">> -> [top |-> "application", sub |-> "pdf"]
          [] e = <<".","d","o","c">> -> [top |-> "application", sub |-> "msword"]
          [] e = <<".","x","l","s">> -> [top |-> "application", sub |-> "vnd.ms-excel"]
          [] e = <<".","p","p","t">> -> [top |-> "application", sub |-> "vnd.ms-powerpoint"]
          [] e = <<".","j","s","o","n">> -> [top |-> "application", sub |-> "json"]
          [] e = <<".","z","i","p">> -> [top |-> "application", sub |-> "zip"]
          [] OTHER -> NoMime

\* mimetypes.guess_type(path)[0]
guess_type(p) == types_map(lower(splitext_ext(p)))

IMAGE_EXTS ==
    {<<".","j","p","g">>, <<".","j","p","e","g">>, <<".","p","n","g">>, <<".","g","i","f">>,
     <<".","b","m","p">>, <<".","t","i","f","f">>, <<".","w","e","b","p">>}

VIDEO_EXTS ==
    {<<".","m","p","4">>, <<".","a","v","i">>, <<".","m","o","v">>, <<".","w","m","v">>,
     <<".","m","k","v">>, <<".","f","l","v">>, <<".","w","e","b","m">>}

AUDIO_EXTS ==
    {<<".","m","p","3">>, <<".","w","a","v">>, <<".","o","g","g">>, <<".","f","l","a","c">>,
     <<".","a","a","c">>, <<".","m","4","a">>}

DOCUMENT_EXTS ==
    {<<".","p","d","f">>, <<".","t","x","t">>, <<".","m","d">>, <<".","r","t","f">>}

CODE_EXTS ==
    {<<".","p","y">>, <<".","j","s">>, <<".","h","t","m","l">>, <<".","c","s","s">>,
     <<".","j","a","v","a">>, <<".","c","p","p">>, <<".","c">>, <<".","h">>, <<".","c","s">>,
     <<".","p","h","p">>, <<".","r","b">>, <<".","g","o">>, <<".","r","s">>, <<".","t","s">>}

DATA_EXTS ==
    {<<".","c","s","v">>, <<".","j","s","o","n">>, <<".","x","m","l">>,
     <<".","y","a","m","l">>, <<".","y","m","l">>, <<".","s","q","l">>, <<".","d","b">>,
     <<".","s","q","l","i","t","e">>}

ARCHIVE_EXTS ==
    {<<".","z","i","p">>, <<".","r","a","r">>, <<".","7","z">>, <<".","t","a","r">>,
     <<".","g","z">>, <<".","b","z","2">>}

EXECUTABLE_EXTS ==
    {<<".","e","x","e">>, <<".","m","s","i">>, <<".","b","a","t">>, <<".","s","h">>,
     <<".","a","p","p">>, <<".","d","m","g">>}

WORD_EXTS == {<<".","d","o","c">>, <<".","d","o","c","x">>}

EXCEL_EXTS == {<<".","x","l","s">>, <<".","x","l","s","x">>}

POWERPOINT_EXTS == {<<".","p","p","t">>, <<".","p","p","t","x">>}

\* the extension fallback of get_file_type, for ext, the lower-cased extension
ext_file_type(ext) ==
        CASE ext \in IMAGE_EXTS -> "image"
          [] ext \in VIDEO_EXTS -> "video"
          [] ext \in AUDIO_EXTS -> "audio"
          [] ext \in DOCUMENT_EXTS -> "document"
          [] ext \in CODE_EXTS -> "code"
          [] ext \in DATA_EXTS -> "data"
          [] ext \in ARCHIVE_EXTS -> "archive"
          [] ext \in EXECUTABLE_EXTS -> "executable"
          [] ext \in WORD_EXTS -> "document"
          [] ext \in EXCEL_EXTS -> "spreadsheet"
          [] ext \in POWERPOINT_EXTS -> "presentation"
          [] OTHER -> "unknown"

\* the branches of get_file_type for the media type m and the lower-cased
\* extension ext: the media type decides, the extension lists are the fallback
mime_file_type(m, ext) ==
        CASE m.top = "image" -> "image"
          [] m.top = "video" -> "video"
          [] m.top = "audio" -> "audio"
          [] m.top = "text" -> "text"
          [] m.top = "application" /\ m.sub = "pdf" -> "pdf"
          [] m.top = "application" /\ m.sub = "msword" -> "document"
          [] m.top = "application" /\ m.sub = "vnd.ms-excel" -> "spreadsheet"
          [] m.top = "application" /\ m.sub = "vnd.ms-powerpoint" -> "presentation"
          [] OTHER -> ext_file_type(ext)

\* get_file_type(file_path)
get_file_type(p) == mime_file_type(guess_type(p), lower(splitext_ext(p)))

(***************************************************************************)
(* The filesystem (POSIX host: os.linesep is the line feed, paths are case *)
(* sensitive, no links).                                                   *)
(***************************************************************************)
Dir == [kind |-> "dir", content |-> <<>>]

File(c) == [kind |-> "file", content |-> c]

\* the filesystem f with node n at path p
Put(f, p, n) == [q \in (DOMAIN f) \cup {p} |-> IF q = p THEN n ELSE f[q]]

\* the filesystem f without path p
Unlink(f, p) == [q \in (DOMAIN f) \ {p} |-> f[q]]

\* os.path.exists
exists(f, p) == p \in DOMAIN f

\* os.path.isfile
isfile(f, p) == p \in DOMAIN f /\ f[p].kind = "file"

\* os.path.isdir
isdir(f, p) == p \in DOMAIN f /\ f[p].kind = "dir"

\* os.path.getsize: the bytes of a file in UTF-8 (two for the capital I with
\* a dot above, one for every other character of the model), the size of
\* the directory entry for a directory
getsize(f, p) ==
    IF isfile(f, p) THEN Len(f[p].content) + count(f[p].content, "I_DOT") ELSE 4096

\* the regular files of f
Files(f) == {p \in DOMAIN f : f[p].kind = "file"}

Ok(f) == [exc |-> "", fs |-> f]

Raise(e, f) == [exc |-> e, fs |-> f]

\* os.mkdir
mkdir(f, p) ==
    IF exists(f, p) THEN Raise("FileExistsError", f)
    ELSE IF ~exists(f, dirname(p)) THEN Raise("FileNotFoundError", f)
    ELSE IF ~isdir(f, dirname(p)) THEN Raise("NotADirectoryError", f)
    ELSE Ok(Put(f, p, Dir))

\* os.makedirs(p) as it would be without exist_ok
RECURSIVE makedirs_strict(_, _)
makedirs_strict(f, p) ==
    LET up == IF p # Root /\ ~exists(f, dirname(p))
              THEN makedirs_strict(f, dirname(p))
              ELSE Ok(f)
    IN  IF up.exc \notin {"", "FileExistsError"} THEN up ELSE mkdir(up.fs, p)

\* os.makedirs(p, exist_ok=True)
RECURSIVE makedirs(_, _)
makedirs(f, p) ==
    LET up == IF p # Root /\ ~exists(f, dirname(p))
              THEN makedirs(f, dirname(p))
              ELSE Ok(f)
    IN  IF up.exc \notin {"", "FileExistsError"} THEN up
        ELSE LET made == mkdir(up.fs, p)
             IN  IF made.exc # "" /\ isdir(up.fs, p) THEN Ok(up.fs) ELSE made

\* open_write as it would be if the mode were always 'w'
open_write_truncating(f, p, c, append) ==
    IF isdir(f, p) THEN Raise("IsADirectoryError", f)
    ELSE IF ~exists(f, dirname(p)) THEN Raise("FileNotFoundError", f)
    ELSE IF ~isdir(f, dirname(p)) THEN Raise("NotADirectoryError", f)
    ELSE Ok(Put(f, p, File(c)))

\* open(p, 'w') or open(p, 'a') followed by the write of text c
open_write(f, p, c, append) ==
    IF isdir(f, p) THEN Raise("IsADirectoryError", f)
    ELSE IF ~exists(f, dirname(p)) THEN Raise("FileNotFoundError", f)
    ELSE IF ~isdir(f, dirname(p)) THEN Raise("NotADirectoryError", f)
    ELSE Ok(Put(f, p, File(IF append /\ isfile(f, p) THEN f[p].content \o c ELSE c)))

\* what open(p, 'r') hands out for stored text c: universal newlines turn
\* CR LF and a lone CR into LF
RECURSIVE translate_newlines(_)
translate_newlines(c) ==
    IF c = <<>> THEN <<>>
    ELSE IF c[1] = "CR"
    THEN IF Len(c) >= 2 /\ c[2] = "LF"
         THEN <<"LF">> \o translate_newlines(SubSeq(c, 3, Len(c)))
         ELSE <<"LF">> \o translate_newlines(Tail(c))
    ELSE <<c[1]>> \o translate_newlines(Tail(c))

read_translate(c) ==
    IF \E i \in 1..Len(c) : c[i] = "CR" THEN translate_newlines(c) ELSE c

\* shutil.copy2(src, dst), src a regular file
copy2(f, src, dst) ==
    LET real == IF isdir(f, dst) THEN join(dst, basename(src)) ELSE dst
    IN  IF real = src THEN Raise("SameFileError", f)
        ELSE IF isdir(f, real) THEN Raise("IsADirectoryError", f)
        ELSE IF ~exists(f, dirname(real)) THEN Raise("FileNotFoundError", f)
        ELSE IF ~isdir(f, dirname(real)) THEN Raise("NotADirectoryError", f)
        ELSE Ok(Put(f, real, File(f[src].content)))

\* move as it would be if the source were left in place
move_keeping_source(f, src, dst) ==
    LET real == IF isdir(f, dst) THEN join(dst, basename(src)) ELSE dst
    IN  IF isdir(f, dst) /\ exists(f, real) THEN Raise("Error", f)
        ELSE IF real = src THEN Ok(f)
        ELSE IF ~exists(f, dirname(real)) THEN Raise("FileNotFoundError", f)
        ELSE IF ~isdir(f, dirname(real)) THEN Raise("NotADirectoryError", f)
        ELSE Ok(Put(f, real, File(f[src].content)))

\* shutil.move(src, dst), src a regular file: os.rename onto the real
\* destination (copy2 and unlink where rename fails)
move(f, src, dst) ==
    LET real == IF isdir(f, dst) THEN join(dst, basename(src)) ELSE dst
    IN  IF isdir(f, dst) /\ exists(f, real) THEN Raise("Error", f)
        ELSE IF real = src THEN Ok(f)
        ELSE IF ~exists(f, dirname(real)) THEN Raise("FileNotFoundError", f)
        ELSE IF ~isdir(f, dirname(real)) THEN Raise("NotADirectoryError", f)
        ELSE Ok(Unlink(Put(f, real, File(f[src].content)), src))

(***************************************************************************)
(* The tools.  Each takes the filesystem and the arguments of the call and *)
(* gives the filesystem it leaves and the payload it returns.              *)
(***************************************************************************)
Error(f, msg) == [fs |-> f, res |-> [error |-> msg]]

\* the lines a text file object iterates over: each up to and with its LF
RECURSIVE file_lines(_)
file_lines(t) ==
    IF t = <<>> THEN <<>>
    ELSE LET nl == {i \in 1..Len(t) : t[i] = "LF"}
         IN  IF nl = {} THEN <<t>>
             ELSE LET k == CHOOSE i \in nl : \A j \in nl : i <= j
                  IN  <<SubSeq(t, 1, k)>> \o file_lines(SubSeq(t, k + 1, Len(t)))

\* ''.join(lines[:n])
RECURSIVE join_lines(_, _)
join_lines(ls, n) ==
    IF n <= 0 \/ ls = <<>> THEN <<>> ELSE ls[1] \o join_lines(Tail(ls), n - 1)

\* read_text_file(file_path, max_lines); max_lines is <<>> for None and <<n>>
\* for the integer n; the truncation note appended to the content is the
\* field note, <<max_lines, i + 1>>
read_text_file(f, p, max_lines) ==
    IF ~isfile(f, p) THEN Error(f, "File not found")
    ELSE IF get_file_type(p) \notin {"text", "code", "document"}
    THEN Error(f, "Not a text file")
    ELSE LET text == read_translate(f[p].content)
             ls   == file_lines(text)
             out(c, n) == [fs |-> f,
                           res |-> [path |-> p, name |-> basename(p), content |-> c,
                                    note |-> n, size |-> getsize(f, p)]]
         IN  IF max_lines = <<>> \/ max_lines[1] = 0 THEN out(text, <<>>)
             ELSE IF ls = <<>> THEN Error(f, "UnboundLocalError")
             ELSE IF Len(ls) > max_lines[1]
             THEN LET i == IF max_lines[1] < 0 THEN 0 ELSE max_lines[1]
                  IN  out(join_lines(ls, i), <<max_lines[1], i + 1>>)
             ELSE out(text, <<>>)

\* write_text_file(file_path, content, append)
write_text_file(f, p, c, append) ==
    LET w == open_write(f, p, c, append)
    IN  IF w.exc # "" THEN Error(f, w.exc)
        ELSE [fs |-> w.fs,
              res |-> [success |-> TRUE, path |-> p, name |-> basename(p),
                       size |-> getsize(w.fs, p),
                       mode |-> IF append THEN "append" ELSE "write"]]

\* copy_file as it would be without the check of the destination
copy_file_ignoring_overwrite(f, src, dst, overwrite) ==
    IF ~isfile(f, src) THEN Error(f, "Source file not found")
    ELSE LET md == makedirs(f, dirname(dst))
         IN  IF md.exc # "" THEN Error(md.fs, md.exc)
             ELSE LET cp == copy2(md.fs, src, dst)
                  IN  IF cp.exc # "" THEN Error(cp.fs, cp.exc)
                      ELSE [fs |-> cp.fs,
                            res |-> [success |-> TRUE, source |-> src, destination |-> dst,
                                     size |-> getsize(cp.fs, dst)]]

\* copy_file as it would be if the destination directory were made before
\* the checks
copy_file_creating_first(f, src, dst, overwrite) ==
    LET md == makedirs(f, dirname(dst))
    IN  IF md.exc # "" THEN Error(md.fs, md.exc)
        ELSE IF ~isfile(md.fs, src) THEN Error(md.fs, "Source file not found")
        ELSE IF exists(md.fs, dst) /\ ~overwrite
        THEN Error(md.fs, "Destination file already exists")
        ELSE LET cp == copy2(md.fs, src, dst)
             IN  IF cp.exc # "" THEN Error(cp.fs, cp.exc)
                 ELSE [fs |-> cp.fs,
                       res |-> [success |-> TRUE, source |-> src, destination |-> dst,
                                size |-> getsize(cp.fs, dst)]]

\* copy_file(source_path, destination_path, overwrite)
copy_file(f, src, dst, overwrite) ==
    IF ~isfile(f, src) THEN Error(f, "Source file not found")
    ELSE IF exists(f, dst) /\ ~overwrite THEN Error(f, "Destination file already exists")
    ELSE LET md == makedirs(f, dirname(dst))
         IN  IF md.exc # "" THEN Error(md.fs, md.exc)
             ELSE LET cp == copy2(md.fs, src, dst)
                  IN  IF cp.exc # "" THEN Error(cp.fs, cp.exc)
                      ELSE [fs |-> cp.fs,
                            res |-> [success |-> TRUE, source |-> src, destination |-> dst,
                                     size |-> getsize(cp.fs, dst)]]

\* move_file(source_path, destination_path, overwrite)
move_file(f, src, dst, overwrite) ==
    IF ~isfile(f, src) THEN Error(f, "Source file not found")
    ELSE IF exists(f, dst) /\ ~overwrite THEN Error(f, "Destination file already exists")
    ELSE LET md == makedirs(f, dirname(dst))
         IN  IF md.exc # "" THEN Error(md.fs, md.exc)
             ELSE LET mv == move(md.fs, src, dst)
                  IN  IF mv.exc # "" THEN Error(mv.fs, mv.exc)
                      ELSE [fs |-> mv.fs,
                            res |-> [success |-> TRUE, source |-> src, destination |-> dst,
                                     size |-> getsize(mv.fs, dst)]]

\* delete_file as it would be if it checked os.path.exists
delete_file_any(f, p) ==
    IF ~exists(f, p) \/ p = Root THEN Error(f, "File not found")
    ELSE [fs |-> Unlink(f, p),
          res |-> [success |-> TRUE,
                   deleted_file |-> [path |-> p, name |-> basename(p),
                                     size |-> getsize(f, p)]]]

\* delete_file(file_path)
delete_file(f, p) ==
    IF ~isfile(f, p) THEN Error(f, "File not found")
    ELSE [fs |-> Unlink(f, p),
          res |-> [success |-> TRUE,
                   deleted_file |-> [path |-> p, name |-> basename(p),
                                     size |-> getsize(f, p)]]]

\* create_directory(directory_path)
create_directory(f, p) ==
    LET md == makedirs(f, p)
    IN  IF md.exc # "" THEN Error(md.fs, md.exc)
        ELSE [fs |-> md.fs, res |-> [success |-> TRUE, path |-> p]]

(***************************************************************************)
(* Metadata, scan and search.  The order in which a directory is listed is *)
(* not fixed by the operating system: every listing takes its order from   *)
(* ord, a sequence of names, which is an input of the call.  Time stamps   *)
(* are not modelled.                                                       *)
(***************************************************************************)
\* the number of characters read for the preview
PREVIEW_CHARS == 1000

\* the extensions get_file_metadata previews
preview_extensions ==
    {<<".","t","x","t">>, <<".","m","d">>, <<".","c","s","v">>, <<".","j","s","o","n">>,
     <<".","x","m","l">>, <<".","h","t","m","l">>, <<".","c","s","s">>, <<".","j","s">>,
     <<".","p","y">>, <<".","j","a","v","a">>, <<".","c">>, <<".","c","p","p">>, <<".","h">>,
     <<".","c","s">>, <<".","p","h","p">>, <<".","r","b">>, <<".","g","o">>, <<".","r","s">>,
     <<".","t","s">>}

\* the extensions search_file_contents reads whatever the category
searchable_extensions ==
    {<<".","t","x","t">>, <<".","m","d">>, <<".","c","s","v">>, <<".","j","s","o","n">>,
     <<".","x","m","l">>, <<".","h","t","m","l">>, <<".","c","s","s">>, <<".","j","s">>,
     <<".","p","y">>, <<".","j","a","v","a">>, <<".","c">>, <<".","c","p","p">>, <<".","h">>,
     <<".","c","s">>, <<".","p","h","p">>, <<".","r","b">>, <<".","g","o">>, <<".","r","s">>,
     <<".","t","s">>}

searchable_types == {"text", "code", "document"}

\* preview_of as it would be without the marker
preview_of_unmarked(text) ==
    IF Len(text) >= PREVIEW_CHARS THEN SubSeq(text, 1, PREVIEW_CHARS) ELSE text

\* the preview of get_file_metadata for the text of the file
preview_of(text) ==
    IF Len(text) >= PREVIEW_CHARS
    THEN Append(SubSeq(text, 1, PREVIEW_CHARS), "... (truncated)")
    ELSE text

with_text(metadata, text) ==
    metadata @@ [preview |-> preview_of(text), line_count |-> Len(file_lines(text))]

\* what get_file_metadata adds to metadata for a previewed file
with_preview(f, p, metadata) ==
    IF isdir(f, p)
    THEN metadata @@ [preview_error |-> "IsADirectoryError"]
    ELSE with_text(metadata, read_translate(f[p].content))

\* the record of get_file_metadata for a path of category file_type
metadata_of(f, p, file_type) ==
    IF /\ file_type \in {"text", "code", "document"}
       /\ lower(splitext_ext(p)) \in preview_extensions
    THEN with_preview(f, p, [path |-> p, name |-> basename(p),
                             size |-> getsize(f, p), type |-> file_type])
    ELSE [path |-> p, name |-> basename(p), size |-> getsize(f, p), type |-> file_type]

\* get_file_metadata(file_path)
get_file_metadata(f, p) ==
    IF ~exists(f, p) THEN [error |-> "FileNotFoundError"]
    ELSE metadata_of(f, p, get_file_type(p))

\* passes as it would be if the filter were not applied
passes_any(file_types, file_type) == TRUE

\* file_types is <<>> for None and <<S>> for a list with the elements S
passes(file_types, file_type) == file_types = <<>> \/ file_type \in file_types[1]

\* os.listdir(d): the names in d, in the order ord gives them
RECURSIVE listdir(_, _, _)
listdir(f, d, ord) ==
    IF ord = <<>> THEN <<>>
    ELSE (IF join(d, ord[1]) \in DOMAIN f THEN <<ord[1]>> ELSE <<>>)
         \o listdir(f, d, Tail(ord))

\* the names among names that are (want = "dir") directories of d, that are
\* (want = "file") regular files of d, or that are (want = "nondir") no
\* directories of d
RECURSIVE only(_, _, _, _)
only(f, d, names, want) ==
    IF names = <<>> THEN <<>>
    ELSE LET p    == join(d, names[1])
             keep == CASE want = "dir" -> isdir(f, p)
                       [] want = "file" -> isfile(f, p)
                       [] OTHER -> ~isdir(f, p)
         IN  (IF keep THEN <<names[1]>> ELSE <<>>) \o only(f, d, Tail(names), want)

\* walk_each as it would be if os.walk did not descend
walk_each_skipping(f, d, dirs, ord) == <<>>

\* os.walk(d), top down: the sequence of (root, files) it yields
RECURSIVE walk(_, _, _)
RECURSIVE walk_each(_, _, _, _)
walk(f, d, ord) ==
    IF ~isdir(f, d) THEN <<>> ELSE
    LET names == listdir(f, d, ord)
        files == only(f, d, names, "nondir")
        dirs  == only(f, d, names, "dir")
    IN  <<[root |-> d, files |-> files]>> \o walk_each(f, d, dirs, ord)

walk_each(f, d, dirs, ord) ==
    IF dirs = <<>> THEN <<>>
    ELSE walk(f, join(d, dirs[1]), ord) \o walk_each(f, d, Tail(dirs), ord)

\* the file paths a loop over os.walk(d) and over its files meets, in order
RECURSIVE walk_paths(_)
walk_paths(w) ==
    IF w = <<>> THEN <<>>
    ELSE [i \in 1..Len(w[1].files) |-> join(w[1].root, w[1].files[i])]
         \o walk_paths(Tail(w))

\* the paths a loop over os.listdir(d) keeps with os.path.isfile
listed_files(f, d, ord) ==
    LET names == only(f, d, listdir(f, d, ord), "file")
    IN  [i \in 1..Len(names) |-> join(d, names[i])]

\* the body of the loops of scan_directory over the paths ps
RECURSIVE scan_loop(_, _, _)
scan_loop(f, ps, file_types) ==
    IF ps = <<>> THEN <<>>
    ELSE (IF passes(file_types, get_file_type(ps[1]))
          THEN <<get_file_metadata(f, ps[1])>> ELSE <<>>)
         \o scan_loop(f, Tail(ps), file_types)

\* what a helper returns: the list results, or the {"error": ...} of its
\* except clause (exc is "" for a list)
Listed(l) == [exc |-> "", list |-> l]

Failed(e) == [exc |-> e, list |-> <<>>]

\* the value a tool puts in its payload for the helper's return value r
returned(r) == IF r.exc = "" THEN r.list ELSE [error |-> r.exc]

\* len(results) if isinstance(results, list) else 0
len_if_list(r) == IF r.exc = "" THEN Len(r.list) ELSE 0

\* scan_directory(directory_path, recursive, file_types)
scan_directory(f, d, recursive, file_types, ord) ==
    IF recursive THEN Listed(scan_loop(f, walk_paths(walk(f, d, ord)), file_types))
    ELSE IF ~isdir(f, d) THEN Failed("NotADirectoryError")
    ELSE Listed(scan_loop(f, listed_files(f, d, ord), file_types))

\* scan_directory_tool(directory_path, recursive, file_types)
scan_directory_tool(f, d, recursive, file_types, ord) ==
    IF ~isdir(f, d) THEN Error(f, "Directory not found")
    ELSE LET results == scan_directory(f, d, recursive, file_types, ord)
         IN  [fs |-> f,
              res |-> [directory |-> d, file_count |-> len_if_list(results),
                       files |-> returned(results)]]

\* search_loop as it would be if the file name were not lower-cased
RECURSIVE search_loop_case_sensitive(_, _, _, _)
search_loop_case_sensitive(f, ps, query, file_types) ==
    IF ps = <<>> THEN <<>>
    ELSE (IF /\ contains(basename(ps[1]), query)
             /\ passes(file_types, get_file_type(ps[1]))
          THEN <<get_file_metadata(f, ps[1])>> ELSE <<>>)
         \o search_loop_case_sensitive(f, Tail(ps), query, file_types)

\* the body of the loops of search_files over the paths ps, query lower-cased
RECURSIVE search_loop(_, _, _, _)
search_loop(f, ps, query, file_types) ==
    IF ps = <<>> THEN <<>>
    ELSE (IF /\ contains(lower(basename(ps[1])), query)
             /\ passes(file_types, get_file_type(ps[1]))
          THEN <<get_file_metadata(f, ps[1])>> ELSE <<>>)
         \o search_loop(f, Tail(ps), query, file_types)

\* search_files(directory_path, query, recursive, file_types)
search_files(f, d, query, recursive, file_types, ord) ==
    IF recursive
    THEN Listed(search_loop(f, walk_paths(walk(f, d, ord)), lower(query), file_types))
    ELSE IF ~isdir(f, d) THEN Failed("NotADirectoryError")
    ELSE Listed(search_loop(f, listed_files(f, d, ord), lower(query), file_types))

\* search_files_tool(directory_path, query, recursive, file_types)
search_files_tool(f, d, query, recursive, file_types, ord) ==
    IF ~isdir(f, d) THEN Error(f, "Directory not found")
    ELSE LET results == search_files(f, d, query, recursive, file_types, ord)
         IN  [fs |-> f,
              res |-> [directory |-> d, query |-> query,
                       match_count |-> len_if_list(results),
                       matches |-> returned(results)]]

\* the characters of context kept on each side of a match
CONTEXT_CHARS == 50

\* metadata["match"] for the text content and the lower-cased query
match_record(content, query) ==
    LET index == find(lower(content), query)
        start == IF index - CONTEXT_CHARS > 0 THEN index - CONTEXT_CHARS ELSE 0
        end   == IF Len(content) < index + Len(query) + CONTEXT_CHARS
                 THEN Len(content) ELSE index + Len(query) + CONTEXT_CHARS
    IN  [context |-> Slice(content, start, end),
         line |-> count(Slice(content, 0, index), "LF") + 1]

\* the body of the loops of search_file_contents for the path p: results
\* with the record of p when p is a candidate whose text holds the query
contents_step(f, p, query, file_types, results) ==
    LET file_type == get_file_type(p)
        ext       == lower(splitext_ext(p))
    IN  IF /\ passes(file_types, file_type)
           /\ (file_type \in searchable_types \/ ext \in searchable_extensions)
           /\ isfile(f, p)
        THEN LET content == read_translate(f[p].content)
             IN  IF contains(lower(content), query)
                 THEN Append(results,
                             get_file_metadata(f, p)
                             @@ [match |-> match_record(content, query)])
                 ELSE results
        ELSE results

\* contents_loop as it would be without the break
RECURSIVE contents_loop_uncapped(_, _, _, _, _, _)
contents_loop_uncapped(f, ps, query, file_types, max_results, results) ==
    IF ps = <<>> THEN results
    ELSE contents_loop_uncapped(f, Tail(ps), query, file_types, max_results,
                                contents_step(f, ps[1], query, file_types, results))

\* the loop over the paths ps, left by break once max_results are collected
RECURSIVE contents_loop(_, _, _, _, _, _)
contents_loop(f, ps, query, file_types, max_results, results) ==
    IF ps = <<>> \/ Len(results) >= max_results THEN results
    ELSE contents_loop(f, Tail(ps), query, file_types, max_results,
                       contents_step(f, ps[1], query, file_types, results))

\* the loop over os.walk: the loop over the files of every directory it yields
RECURSIVE contents_walk(_, _, _, _, _, _)
contents_walk(f, w, query, file_types, max_results, results) ==
    IF w = <<>> THEN results
    ELSE contents_walk(f, Tail(w), query, file_types, max_results,
                       contents_loop(f, walk_paths(<<w[1]>>), query, file_types,
                                     max_results, results))

\* search_file_contents(directory_path, query, recursive, file_types, max_results)
search_file_contents(f, d, query, recursive, file_types, max_results, ord) ==
    IF recursive
    THEN Listed(contents_walk(f, walk(f, d, ord), lower(query), file_types,
                              max_results, <<>>))
    ELSE IF ~isdir(f, d) THEN Failed("NotADirectoryError")
    ELSE LET names == listdir(f, d, ord)
         IN  Listed(contents_loop(f, [i \in 1..Len(names) |-> join(d, names[i])],
                                  lower(query), file_types, max_results, <<>>))

\* search_file_contents_tool(directory_path, query, recursive, file_types, max_results)
search_file_contents_tool(f, d, query, recursive, file_types, max_results, ord) ==
    IF ~isdir(f, d) THEN Error(f, "Directory not found")
    ELSE LET results == search_file_contents(f, d, query, recursive, file_types,
                                             max_results, ord)
         IN  [fs |-> f,
              res |-> [directory |-> d, query |-> query,
                       match_count |-> len_if_list(results),
                       matches |-> returned(results)]]

\* get_file_metadata_tool as it would be without the test of the path
get_file_metadata_tool_unchecked(f, p) == [fs |-> f, res |-> get_file_metadata(f, p)]

\* get_file_metadata_tool(file_path)
get_file_metadata_tool(f, p) ==
    IF ~isfile(f, p) THEN Error(f, "File not found")
    ELSE [fs |-> f, res |-> get_file_metadata(f, p)]

\* the entries list_directory appends to files for the names given
file_entries(f, d, names) ==
    [i \in 1..Len(names) |->
        [name |-> names[i], path |-> join(d, names[i]),
         size |-> getsize(f, join(d, names[i])),
         type |-> get_file_type(join(d, names[i]))]]

\* the entries list_directory appends to directories for the names given
directory_entries(d, names) ==
    [i \in 1..Len(names) |-> [name |-> names[i], path |-> join(d, names[i])]]

\* the payload of list_directory for the lists files and directories
listing(d, files, directories) ==
    [path |-> d, files |-> files, directories |-> directories,
     file_count |-> Len(files), directory_count |-> Len(directories)]

\* list_directory as it would be if every item were taken for a file
list_directory_flat(f, d, ord) ==
    IF ~isdir(f, d) THEN Error(f, "Directory not found")
    ELSE [fs |-> f,
          res |-> listing(d, file_entries(f, d, listdir(f, d, ord)),
                          directory_entries(d, only(f, d, listdir(f, d, ord), "dir")))]

\* list_directory(directory_path)
list_directory(f, d, ord) ==
    IF ~isdir(f, d) THEN Error(f, "Directory not found")
    ELSE [fs |-> f,
          res |-> listing(d,
                          file_entries(f, d, only(f, d, listdir(f, d, ord), "file")),
                          directory_entries(d, only(f, d, listdir(f, d, ord), "dir")))]

(***************************************************************************)
(* Collections.  The server is taken to run in its project root, so that   *)
(* the data directory is data below Root.  A collection name is the        *)
(* sequence of its components between slashes; PARENT is the component     *)
(* "..".  The JSON text of a manifest is kept as the one document it       *)
(* encodes (the time of creation is not modelled).                         *)
(***************************************************************************)
BASE_DIR == <<<<"d","a","t","a">>>>
MEDIA_DIR == join(BASE_DIR, <<"m","e","d","i","a">>)
CACHE_DIR == join(BASE_DIR, <<"c","a","c","h","e">>)
TEMP_DIR == join(BASE_DIR, <<"t","e","m","p">>)
DOCS_DIR == join(BASE_DIR, <<"d","o","c","u","m","e","n","t","s">>)
DATA_DIR == join(BASE_DIR, <<"u","s","e","r","d","a","t","a">>)
COLLECTIONS_DIR == join(BASE_DIR, <<"c","o","l","l","e","c","t","i","o","n","s">>)

collection_json == <<"c","o","l","l","e","c","t","i","o","n",".","j","s","o","n">>

PARENT == <<".", ".">>

\* the path os.path.join(base, name) names, for a name whose PARENT
\* components all lead it: each of them goes one directory up (the root is
\* its own parent)
RECURSIVE join_name(_, _)
join_name(base, name) ==
    IF name = <<>> THEN base
    ELSE IF name[1] = PARENT THEN join_name(dirname(base), Tail(name))
    ELSE join_name(join(base, name[1]), Tail(name))

\* a tool call left by an exception no handler caught
Propagate(f, e) == [fs |-> f, res |-> [exception |-> e]]

\* collected as it would be if entries that are no regular files were kept
RECURSIVE collected_unchecked(_, _)
collected_unchecked(f, file_paths) ==
    IF file_paths = <<>> THEN <<>>
    ELSE <<get_file_metadata(f, file_paths[1])>>
         \o collected_unchecked(f, Tail(file_paths))

\* collection_info["files"] after the loop over file_paths
RECURSIVE collected(_, _)
collected(f, file_paths) ==
    IF file_paths = <<>> THEN <<>>
    ELSE (IF isfile(f, file_paths[1])
          THEN <<get_file_metadata(f, file_paths[1])>> ELSE <<>>)
         \o collected(f, Tail(file_paths))

\* open(manifest, "w") and json.dump(collection_info, f)
dump_manifest(f, manifest, collection_info) ==
    IF isdir(f, manifest) THEN Raise("IsADirectoryError", f)
    ELSE Ok(Put(f, manifest, File(<<collection_info>>)))

\* create_collection after os.makedirs has left the filesystem f
collect_into(f, name, collection_dir, files) ==
    LET w == dump_manifest(f, join(collection_dir, collection_json),
                           [name |-> name, files |-> files])
    IN  IF w.exc # "" THEN Propagate(f, w.exc)
        ELSE [fs |-> w.fs,
              res |-> [collection |-> name, file_count |-> Len(files),
                       path |-> collection_dir]]

\* create_collection(name, file_paths)
create_collection(f, name, file_paths) ==
    LET made == makedirs(f, join_name(COLLECTIONS_DIR, name))
    IN  IF made.exc # "" THEN Propagate(f, made.exc)
        ELSE collect_into(made.fs, name, join_name(COLLECTIONS_DIR, name),
                          collected(made.fs, file_paths))

(***************************************************************************)
(* The inputs the calls are drawn from.                                    *)
(***************************************************************************)
a_txt == <<"a",".","t","x","t">>
b_py == <<"b",".","p","y">>
c_jpg == <<"c",".","j","p","g">>
sub == <<"s","u","b">>
deep == <<"d">>

\* the paths of the file calls
FilePaths == {<<a_txt>>, <<c_jpg>>, <<sub>>, <<sub, a_txt>>}

\* the paths of create_directory
DirPaths == {<<sub>>, <<sub, deep>>}

\* the contents written
Contents == {<<>>, <<"a">>, <<"B", "CR">>}

\* max_lines of read_text_file
MaxLines == {<<>>, <<1>>}

T_go == <<"T",".","g","o">>

\* the paths written while a tree is built for scan and search
QueryPaths == {<<a_txt>>, <<b_py>>, <<c_jpg>>, <<sub, T_go>>}

\* the contents written there
QueryContents == {<<"a">>, <<"A", "b">>}

\* the directories scanned and searched
ScanDirs == {Root, <<sub>>}

\* file_types: None, the empty list, and two lists of categories
FileTypes == {<<>>, <<{}>>, <<{"text"}>>, <<{"image", "code"}>>}

\* the queries of search_files and of search_file_contents
NameQueries == {<<"t">>, <<"T">>, <<"b", ".">>}

TextQueries == {<<>>, <<"A">>, <<"b">>}

\* the orders in which directories are listed
AllNames == <<a_txt, b_py, c_jpg, sub, deep, T_go>>

Orders == {AllNames, [i \in 1..Len(AllNames) |-> AllNames[Len(AllNames) + 1 - i]]}

d_pdf == <<"d",".","p","d","f">>

\* the paths written, copied, moved and deleted while a tree is built for
\* get_file_metadata_tool, list_directory and the unfiltered scan
InspectPaths == {<<a_txt>>, <<d_pdf>>, <<sub>>, <<sub, a_txt>>}

\* the contents written there
InspectContents == {<<"a">>, <<"a", "LF">>}

\* the paths looked at
LookPaths == {Root, <<a_txt>>, <<d_pdf>>, <<sub>>, <<sub, a_txt>>, <<sub, deep>>}

InspectNames == <<a_txt, d_pdf, sub, deep>>

InspectOrders ==
    {InspectNames, [i \in 1..Len(InspectNames) |-> InspectNames[Len(InspectNames) + 1 - i]]}

n_json == <<"n",".","j","s","o","n">>

\* n times the character c
Repeat(c, n) == [i \in 1..n |-> c]

\* the text with the word Wo on its second line, n characters before the
\* line feed and m characters after the word
Around(n, m) == Repeat("a", n) \o <<"LF", "W", "o">> \o Repeat("b", m)

\* the paths the long texts are written to
TextPaths == {<<a_txt>>, <<c_jpg>>, <<n_json>>}

\* the long texts: around the 1000 characters of the preview, around the 50
\* characters of the context of a match, of zero to three lines, and with
\* characters that lower() makes longer
TextContents ==
    {Repeat("a", n) : n \in {PREVIEW_CHARS - 1, PREVIEW_CHARS, PREVIEW_CHARS + 1}}
    \cup {Around(n, m) : n \in {CONTEXT_CHARS - 2, CONTEXT_CHARS},
                         m \in {CONTEXT_CHARS - 1, CONTEXT_CHARS + 1}}
    \cup {<<>>, <<"w", "O", "LF">>, <<"a", "CR", "b", "CR", "LF", "W", "o">>,
          <<"I_DOT", "I_DOT", "x", "LF", "y">>}

\* the queries the long texts are searched for
LongQueries == {<<>>, <<"w", "O">>, <<"x">>}

TextNames == <<a_txt, c_jpg, n_json>>

c_name == <<"c">>
e_name == <<"e">>

\* the names of the collections made
CollectionNames ==
    {<<c_name>>, <<c_name, collection_json>>, <<PARENT, PARENT, e_name>>}

\* the paths written while collections are made
MemberPaths == {<<a_txt>>, <<d_pdf>>, <<e_name>>}

\* file_paths: lists of files, of a directory or a missing path among
\* them, in both orders and with an entry twice
FilePathLists ==
    {<<>>, <<<<a_txt>>>>, <<<<sub>>>>, <<<<a_txt>>, <<d_pdf>>>>, <<<<d_pdf>>, <<a_txt>>>>,
     <<<<sub>>, <<a_txt>>>>, <<<<a_txt>>, <<a_txt>>>>}

(***************************************************************************)
(* The state machine: one action per tool call.                            *)
(***************************************************************************)
Idle == [op |-> "idle"]

Init ==
    /\ fs = [p \in {Root} |-> Dir]
    /\ call = Idle
    /\ pre = [p \in {Root} |-> Dir]
    /\ res = [idle |-> TRUE]

\* a tool call c is taken while the server waits for a request; the handler
\* runs to its end and r is what it leaves and returns
Done(c, r) ==
    /\ call = Idle
    /\ call' = c
    /\ pre' = fs
    /\ fs' = r.fs
    /\ res' = r.res

\* the payload is sent and the server waits for the next request
Respond ==
    /\ call # Idle
    /\ call' = Idle
    /\ pre' = fs
    /\ res' = [idle |-> TRUE]
    /\ UNCHANGED fs

WriteTextFile(P, C, A) ==
    \E p \in P, c \in C, append \in A :
        /\ (IF append /\ isfile(fs, p) THEN Len(fs[p].content) ELSE 0) + Len(c) <= MaxLen
        /\ Done([op |-> "write_text_file", path |-> p, content |-> c, append |-> append],
                write_text_file(fs, p, c, append))

ReadTextFile(P, M) ==
    \E p \in P, m \in M :
        Done([op |-> "read_text_file", path |-> p, max_lines |-> m],
             read_text_file(fs, p, m))

CopyFile(P) ==
    \E src \in P, dst \in P, overwrite \in BOOLEAN :
        Done([op |-> "copy_file", source |-> src, destination |-> dst,
              overwrite |-> overwrite],
             copy_file(fs, src, dst, overwrite))

MoveFile(P) ==
    \E src \in P, dst \in P, overwrite \in BOOLEAN :
        Done([op |-> "move_file", source |-> src, destination |-> dst,
              overwrite |-> overwrite],
             move_file(fs, src, dst, overwrite))

DeleteFile(P) ==
    \E p \in P :
        Done([op |-> "delete_file", path |-> p], delete_file(fs, p))

CreateDirectory(P) ==
    \E p \in P :
        Done([op |-> "create_directory", path |-> p], create_directory(fs, p))

ScanDirectoryTool(D, T, O) ==
    \E d \in D, recursive \in BOOLEAN, t \in T, ord \in O :
        Done([op |-> "scan_directory", directory |-> d, recursive |-> recursive,
              file_types |-> t, ord |-> ord],
             scan_directory_tool(fs, d, recursive, t, ord))

SearchFilesTool(D, Q, T, O) ==
    \E d \in D, q \in Q, recursive \in BOOLEAN, t \in T, ord \in O :
        Done([op |-> "search_files", directory |-> d, query |-> q,
              recursive |-> recursive, file_types |-> t, ord |-> ord],
             search_files_tool(fs, d, q, recursive, t, ord))

SearchFileContentsTool(D, Q, T, O) ==
    \E d \in D, q \in Q, recursive \in BOOLEAN, t \in T, m \in 0..MaxResults, ord \in O :
        Done([op |-> "search_file_contents", directory |-> d, query |-> q,
              recursive |-> recursive, file_types |-> t, max_results |-> m,
              ord |-> ord],
             search_file_contents_tool(fs, d, q, recursive, t, m, ord))

GetFileMetadataTool(P) ==
    \E p \in P :
        Done([op |-> "get_file_metadata", path |-> p], get_file_metadata_tool(fs, p))

ListDirectory(D, O) ==
    \E d \in D, ord \in O :
        Done([op |-> "list_directory", directory |-> d, ord |-> ord],
             list_directory(fs, d, ord))

\* write_text_file_tool with a long text
WriteText(P, C) ==
    \E p \in P, c \in C :
        /\ isfile(fs, p) \/ Cardinality(Files(fs)) < MaxTextFiles
        /\ Done([op |-> "write_text_file", path |-> p, content |-> c, append |-> FALSE],
                write_text_file(fs, p, c, FALSE))

\* the manifests of the filesystem f
Manifests(f) == {p \in Files(f) : basename(p) = collection_json}

CreateCollection(N, L) ==
    \E name \in N, file_paths \in L :
        /\ Cardinality(Manifests(create_collection(fs, name, file_paths).fs))
           <= MaxCollections
        /\ Done([op |-> "create_collection", name |-> name, file_paths |-> file_paths],
                create_collection(fs, name, file_paths))

Next ==
    \/ WriteTextFile(FilePaths, Contents, BOOLEAN)
    \/ ReadTextFile(FilePaths, MaxLines)
    \/ CopyFile(FilePaths)
    \/ MoveFile(FilePaths)
    \/ DeleteFile(FilePaths)
    \/ CreateDirectory(DirPaths)
    \/ Respond

Spec == Init /\ [][Next]_vars

\* the server while a tree is built and then scanned and searched
NextQuery ==
    \/ WriteTextFile(QueryPaths, QueryContents, {FALSE})
    \/ CreateDirectory(DirPaths)
    \/ DeleteFile(QueryPaths)
    \/ ScanDirectoryTool(ScanDirs, FileTypes, Orders)
    \/ SearchFilesTool(ScanDirs, NameQueries, FileTypes, Orders)
    \/ SearchFileContentsTool(ScanDirs, TextQueries, FileTypes, Orders)
    \/ Respond

SpecQuery == Init /\ [][NextQuery]_vars

\* a tree is built and changed, and looked at by get_file_metadata_tool,
\* list_directory and the unfiltered scan
NextInspect ==
    \/ WriteTextFile(InspectPaths, InspectContents, {FALSE})
    \/ CreateDirectory(DirPaths)
    \/ CopyFile(InspectPaths)
    \/ MoveFile(InspectPaths)
    \/ DeleteFile(InspectPaths)
    \/ GetFileMetadataTool(LookPaths)
    \/ ListDirectory(LookPaths, InspectOrders)
    \/ ScanDirectoryTool(LookPaths, {<<>>}, InspectOrders)
    \/ Respond

SpecInspect == Init /\ [][NextInspect]_vars

\* long texts are written, previewed by get_file_metadata_tool and searched
NextText ==
    \/ WriteText(TextPaths, TextContents)
    \/ GetFileMetadataTool(TextPaths)
    \/ SearchFileContentsTool({Root}, LongQueries, {<<>>}, {TextNames})
    \/ Respond

SpecText == Init /\ [][NextText]_vars

\* the directories the server makes when it is loaded
data_directories ==
    {Root, BASE_DIR, MEDIA_DIR, CACHE_DIR, TEMP_DIR, DOCS_DIR, DATA_DIR, COLLECTIONS_DIR}

InitCollection ==
    /\ fs = [p \in data_directories |-> Dir]
    /\ call = Idle
    /\ pre = [p \in data_directories |-> Dir]
    /\ res = [idle |-> TRUE]

\* files are written and collections of them are made
NextCollection ==
    \/ WriteTextFile(MemberPaths, {<<"a">>}, {FALSE})
    \/ CreateDirectory({<<sub>>})
    \/ CreateCollection(CollectionNames, FilePathLists)
    \/ Respond

SpecCollection == InitCollection /\ [][NextCollection]_vars

(***************************************************************************)
(* The scan step by step, with another process at work on the files.       *)
(* While a scan runs, call holds its position: stack, the directories       *)
(* os.walk has yet to list; pending, the paths listed and not yet done;     *)
(* stage, the next step for the first of them; partial, its record before   *)
(* the preview; results; seen, the regular files listed; touched, the       *)
(* files the other process has deleted or written since the scan began.     *)
(***************************************************************************)
\* the paths written before a scan and changed during it
RacePaths == {<<a_txt>>, <<d_pdf>>, <<sub, a_txt>>}

RaceContents == {<<"a">>, <<"b", "LF">>}

\* the stage of the first pending path of a scan
first_stage(recursive) == IF recursive THEN "stat" ELSE "isfile"

\* the position of a scan of d that has listed the paths pending
scanning(d, recursive, ord, stack, pending, seen) ==
    [op |-> "scanning", directory |-> d, recursive |-> recursive, ord |-> ord,
     stack |-> stack, pending |-> pending, stage |-> first_stage(recursive),
     partial |-> <<>>, results |-> <<>>, seen |-> seen, touched |-> {}]

\* the paths of the names in the directory d
paths_in(d, names) == [i \in 1..Len(names) |-> join(d, names[i])]

\* the regular files among the paths ps
files_among(f, ps) == {ps[i] : i \in {j \in 1..Len(ps) : isfile(f, ps[j])}}

\* scan_directory_tool is called: the directory is tested, and a scan that
\* is not recursive lists it
ScanBegin(D, O) ==
    \E d \in D, recursive \in BOOLEAN, ord \in O :
        /\ call = Idle
        /\ pre' = fs
        /\ UNCHANGED fs
        /\ IF ~isdir(fs, d)
           THEN /\ call' = [op |-> "scan_directory", directory |-> d,
                            recursive |-> recursive, file_types |-> <<>>, ord |-> ord,
                            seen |-> {}, touched |-> {}]
                /\ res' = [error |-> "Directory not found"]
           ELSE /\ call' = IF recursive
                           THEN scanning(d, recursive, ord, <<d>>, <<>>, {})
                           ELSE scanning(d, recursive, ord, <<>>,
                                         paths_in(d, listdir(fs, d, ord)),
                                         files_among(fs, paths_in(d, listdir(fs, d, ord))))
                /\ res' = [idle |-> TRUE]

\* advance as it would be if the record were lost
advance_dropping(c, r) ==
    [c EXCEPT !.pending = Tail(@), !.stage = first_stage(c.recursive),
              !.partial = <<>>]

\* the position after the first pending path is done with the record r (no
\* record when r is empty)
advance(c, r) ==
    [c EXCEPT !.pending = Tail(@), !.stage = first_stage(c.recursive),
              !.partial = <<>>, !.results = @ \o r]

\* os.walk goes on to the next directory: it lists it, yields its files and
\* puts its subdirectories first; a directory that cannot be listed is
\* passed over
ScanWalk ==
    /\ call.op = "scanning" /\ call.recursive
    /\ call.pending = <<>> /\ call.stack # <<>>
    /\ LET t     == Head(call.stack)
           names == listdir(fs, t, call.ord)
       IN  call' = IF ~isdir(fs, t)
                   THEN [call EXCEPT !.stack = Tail(@)]
                   ELSE [call EXCEPT
                           !.stack = paths_in(t, only(fs, t, names, "dir")) \o Tail(@),
                           !.pending = paths_in(t, only(fs, t, names, "nondir")),
                           !.seen = @ \cup files_among(fs, paths_in(t, names))]
    /\ UNCHANGED <<fs, pre, res>>

\* os.path.isfile(item_path) in the loop over os.listdir
ScanIsFile ==
    /\ call.op = "scanning" /\ call.pending # <<>> /\ call.stage = "isfile"
    /\ call' = IF isfile(fs, Head(call.pending))
               THEN [call EXCEPT !.stage = "stat"]
               ELSE advance(call, <<>>)
    /\ UNCHANGED <<fs, pre, res>>

\* get_file_metadata up to the record without preview: os.stat fails for a
\* path that is gone, and the exception becomes the record
ScanStat ==
    /\ call.op = "scanning" /\ call.pending # <<>> /\ call.stage = "stat"
    /\ LET p    == Head(call.pending)
           base == [path |-> p, name |-> basename(p), size |-> getsize(fs, p),
                    type |-> get_file_type(p)]
       IN  call' = IF ~exists(fs, p)
                   THEN advance(call, <<[error |-> "FileNotFoundError"]>>)
                   ELSE IF /\ get_file_type(p) \in {"text", "code", "document"}
                           /\ lower(splitext_ext(p)) \in preview_extensions
                   THEN [call EXCEPT !.stage = "preview", !.partial = <<base>>]
                   ELSE advance(call, <<base>>)
    /\ UNCHANGED <<fs, pre, res>>

\* get_file_metadata from the open of the file on: the preview and the
\* lines, or preview_error for a path that is gone
ScanPreview ==
    /\ call.op = "scanning" /\ call.pending # <<>> /\ call.stage = "preview"
    /\ call' = IF ~exists(fs, Head(call.pending))
               THEN advance(call, <<call.partial[1] @@ [preview_error |-> "FileNotFoundError"]>>)
               ELSE advance(call, <<with_preview(fs, Head(call.pending), call.partial[1])>>)
    /\ UNCHANGED <<fs, pre, res>>

\* the loops are over: scan_directory returns results and the tool its
\* payload
ScanEnd ==
    /\ call.op = "scanning" /\ call.pending = <<>> /\ call.stack = <<>>
    /\ call' = [op |-> "scan_directory", directory |-> call.directory,
                recursive |-> call.recursive, file_types |-> <<>>, ord |-> call.ord,
                seen |-> call.seen, touched |-> call.touched]
    /\ res' = [directory |-> call.directory, file_count |-> Len(call.results),
               files |-> call.results]
    /\ UNCHANGED <<fs, pre>>

\* another process deletes a file while the scan runs
ExternalDelete(P) ==
    \E p \in P :
        /\ call.op = "scanning" /\ isfile(fs, p)
        /\ fs' = Unlink(fs, p)
        /\ call' = [call EXCEPT !.touched = @ \cup {p}]
        /\ UNCHANGED <<pre, res>>

\* another process writes a file that exists while the scan runs
ExternalWrite(P, C) ==
    \E p \in P, c \in C :
        /\ call.op = "scanning" /\ isfile(fs, p) /\ fs[p].content # c
        /\ fs' = Put(fs, p, File(c))
        /\ call' = [call EXCEPT !.touched = @ \cup {p}]
        /\ UNCHANGED <<pre, res>>

NextRace ==
    \/ WriteTextFile(RacePaths, RaceContents, {FALSE})
    \/ CreateDirectory({<<sub>>})
    \/ ScanBegin({Root}, InspectOrders)
    \/ ScanWalk
    \/ ScanIsFile
    \/ ScanStat
    \/ ScanPreview
    \/ ScanEnd
    \/ ExternalDelete(RacePaths)
    \/ ExternalWrite(RacePaths, RaceContents)
    \/ Respond

SpecRace == Init /\ [][NextRace]_vars

(***************************************************************************)
(* The content search step by step, with another process removing paths.   *)
(* While a search runs, call holds its position: stack, the directories     *)
(* yet to be listed; pending, the paths listed and not yet done; stage, the *)
(* next step for the first of them; results; exc, the exception that ended  *)
(* the loops; listed, the directories listed so far, and late, those listed *)
(* once max_results matches were collected; tried, the candidates whose     *)
(* open was attempted, and failed, those whose open raised; seen, the       *)
(* regular files listed; touched, the paths the other process removed.      *)
(***************************************************************************)
\* the paths written before a search and the contents written there
SearchPaths == {<<a_txt>>, <<b_py>>, <<sub, T_go>>}

SearchContents == {<<"a">>, <<"b">>}

\* search_file_contents_tool is called: the directory is tested
SearchBegin(D, Q, O) ==
    \E d \in D, q \in Q, recursive \in BOOLEAN, m \in 0..MaxResults, ord \in O :
        /\ call = Idle
        /\ pre' = fs
        /\ UNCHANGED fs
        /\ call' = [op |-> IF isdir(fs, d) THEN "searching" ELSE "search_file_contents",
                    directory |-> d, query |-> q, recursive |-> recursive,
                    file_types |-> <<>>, max_results |-> m, ord |-> ord,
                    stack |-> IF isdir(fs, d) THEN <<d>> ELSE <<>>, pending |-> <<>>,
                    stage |-> IF recursive THEN "open" ELSE "isfile", results |-> <<>>, exc |-> "",
                    listed |-> <<>>, late |-> {}, tried |-> <<>>, failed |-> {},
                    seen |-> {}, touched |-> {}]
        /\ res' = IF isdir(fs, d) THEN [idle |-> TRUE]
                  ELSE [error |-> "Directory not found"]

\* the position after the directory t is listed: os.walk yields its files
\* and puts its subdirectories first, and passes over a directory it cannot
\* list; os.listdir raises for one, which ends search_file_contents
list_next(c, f, t) ==
    LET names == listdir(f, t, c.ord)
        noted == [c EXCEPT !.listed = Append(@, t),
                           !.late = IF Len(c.results) >= c.max_results
                                    THEN @ \cup {t} ELSE @]
    IN  IF ~isdir(f, t)
        THEN [noted EXCEPT !.stack = IF c.recursive THEN Tail(@) ELSE <<>>,
                           !.exc = IF c.recursive THEN "" ELSE "FileNotFoundError"]
        ELSE [noted EXCEPT
                !.stack = IF c.recursive
                          THEN paths_in(t, only(f, t, names, "dir")) \o Tail(@)
                          ELSE <<>>,
                !.pending = IF c.recursive
                            THEN paths_in(t, only(f, t, names, "nondir"))
                            ELSE paths_in(t, names),
                !.seen = @ \cup files_among(f, paths_in(t, names))]

\* os.walk goes on to the next directory, or os.listdir lists the directory
SearchList ==
    /\ call.op = "searching"
    /\ call.pending = <<>> /\ call.stack # <<>>
    /\ call' = list_next(call, fs, Head(call.stack))
    /\ UNCHANGED <<fs, pre, res>>

\* the loop over os.listdir: the test of count, which leaves the loop, and
\* os.path.isfile(file_path)
SearchIsFile ==
    /\ call.op = "searching" /\ call.pending # <<>> /\ call.stage = "isfile"
    /\ call' = IF Len(call.results) >= call.max_results
               THEN [call EXCEPT !.pending = <<>>]
               ELSE IF isfile(fs, Head(call.pending))
               THEN [call EXCEPT !.stage = "open"]
               ELSE [call EXCEPT !.pending = Tail(@)]
    /\ UNCHANGED <<fs, pre, res>>

\* visit_file as it would be if a failed open ended the loops
visit_file_raising(c, f) ==
    LET p         == Head(c.pending)
        candidate == \/ get_file_type(p) \in searchable_types
                     \/ lower(splitext_ext(p)) \in searchable_extensions
    IN  IF c.recursive /\ Len(c.results) >= c.max_results
        THEN [c EXCEPT !.pending = <<>>]
        ELSE IF candidate /\ ~isfile(f, p)
        THEN [c EXCEPT !.pending = <<>>, !.stack = <<>>, !.exc = "FileNotFoundError",
                       !.tried = Append(@, p), !.failed = @ \cup {p}]
        ELSE [c EXCEPT !.pending = Tail(@), !.stage = IF c.recursive THEN "open" ELSE "isfile",
                       !.results = contents_step(f, p, lower(c.query), c.file_types, @),
                       !.tried = IF candidate THEN Append(@, p) ELSE @]

\* the position after the body of the loop for the first pending path: in
\* the loop over the files of os.walk the test of count, which leaves that
\* loop; then the open, the read and the record of a candidate
visit_file(c, f) ==
    LET p         == Head(c.pending)
        candidate == \/ get_file_type(p) \in searchable_types
                     \/ lower(splitext_ext(p)) \in searchable_extensions
    IN  IF c.recursive /\ Len(c.results) >= c.max_results
        THEN [c EXCEPT !.pending = <<>>]
        ELSE [c EXCEPT !.pending = Tail(@), !.stage = IF c.recursive THEN "open" ELSE "isfile",
                       !.results = contents_step(f, p, lower(c.query), c.file_types, @),
                       !.tried = IF candidate THEN Append(@, p) ELSE @,
                       !.failed = IF candidate /\ ~isfile(f, p) THEN @ \cup {p} ELSE @]

SearchOpen ==
    /\ call.op = "searching" /\ call.pending # <<>> /\ call.stage = "open"
    /\ call' = visit_file(call, fs)
    /\ UNCHANGED <<fs, pre, res>>

\* the loops are over: search_file_contents returns results, or the error
\* of its except clause, and the tool its payload
SearchEnd ==
    /\ call.op = "searching" /\ call.pending = <<>> /\ call.stack = <<>>
    /\ call' = [call EXCEPT !.op = "search_file_contents"]
    /\ LET results == IF call.exc = "" THEN Listed(call.results) ELSE Failed(call.exc)
       IN  res' = [directory |-> call.directory, query |-> call.query,
                   match_count |-> len_if_list(results), matches |-> returned(results)]
    /\ UNCHANGED <<fs, pre>>

\* another process removes a file or an empty directory while the search
\* runs
ExternalRemove(P) ==
    \E p \in P :
        /\ call.op = "searching" /\ exists(fs, p)
        /\ \A q \in DOMAIN fs : q # p => dirname(q) # p
        /\ fs' = Unlink(fs, p)
        /\ call' = [call EXCEPT !.touched = @ \cup {p}]
        /\ UNCHANGED <<pre, res>>

NextSearch ==
    \/ WriteTextFile(SearchPaths, SearchContents, {FALSE})
    \/ CreateDirectory({<<sub>>})
    \/ SearchBegin(ScanDirs, {<<"A">>}, Orders)
    \/ SearchList
    \/ SearchIsFile
    \/ SearchOpen
    \/ SearchEnd
    \/ ExternalRemove(SearchPaths \cup {<<sub>>})
    \/ Respond

SpecSearch == Init /\ [][NextSearch]_vars

(***************************************************************************)
(* copy_file and move_file step by step, with another process creating     *)
(* files.  Between the checks and the copy or move, call holds the call     *)
(* with op "copying" or "moving"; written, the content the other process    *)
(* wrote to the destination meanwhile (<<c>>, or <<>> when it did not); at  *)
(* the end replaced tells whether the destination was a file when the data  *)
(* was written.                                                            *)
(***************************************************************************)
\* the paths copied and moved between, and the contents written there
CopyPaths == {<<a_txt>>, <<c_jpg>>, <<sub, a_txt>>}

CopyContents == {<<"a">>, <<"b">>}

\* copy_file or move_file is called: the source and the destination are
\* tested
TransferCheck(P) ==
    \E src \in P, dst \in P, overwrite \in BOOLEAN, op \in {"copy_file", "move_file"} :
        LET c == [op |-> op, source |-> src, destination |-> dst,
                  overwrite |-> overwrite, written |-> <<>>, replaced |-> FALSE]
        IN  /\ call = Idle
            /\ pre' = fs
            /\ UNCHANGED fs
            /\ IF ~isfile(fs, src)
               THEN call' = c /\ res' = [error |-> "Source file not found"]
               ELSE IF exists(fs, dst) /\ ~overwrite
               THEN call' = c /\ res' = [error |-> "Destination file already exists"]
               ELSE /\ call' = [c EXCEPT !.op = IF op = "copy_file" THEN "copying"
                                                ELSE "moving"]
                    /\ res' = [idle |-> TRUE]

\* the rest of the tool: os.makedirs, shutil.copy2 or shutil.move, and the
\* payload
TransferWrite ==
    /\ call.op \in {"copying", "moving"}
    /\ LET src == call.source
           dst == call.destination
           md  == makedirs(fs, dirname(dst))
           tr  == IF md.exc # "" THEN md
                  ELSE IF ~isfile(md.fs, src) THEN Raise("FileNotFoundError", md.fs)
                  ELSE IF call.op = "copying" THEN copy2(md.fs, src, dst)
                  ELSE move(md.fs, src, dst)
       IN  /\ fs' = tr.fs
           /\ res' = IF tr.exc # "" THEN [error |-> tr.exc]
                     ELSE [success |-> TRUE, source |-> src, destination |-> dst,
                           size |-> getsize(tr.fs, dst)]
           /\ call' = [call EXCEPT
                         !.op = IF call.op = "copying" THEN "copy_file" ELSE "move_file",
                         !.replaced = isfile(fs, dst) /\ tr.exc = ""]
    /\ UNCHANGED pre

\* another process creates a file, with the directories above it, between
\* the checks and the copy or move
ExternalCreate(P, C) ==
    \E p \in P, c \in C :
        /\ call.op \in {"copying", "moving"} /\ ~exists(fs, p)
        /\ makedirs(fs, dirname(p)).exc = ""
        /\ fs' = Put(makedirs(fs, dirname(p)).fs, p, File(c))
        /\ call' = IF p = call.destination THEN [call EXCEPT !.written = <<c>>] ELSE call
        /\ UNCHANGED <<pre, res>>

NextTransfer ==
    \/ WriteTextFile(CopyPaths, CopyContents, {FALSE})
    \/ DeleteFile(CopyPaths)
    \/ TransferCheck(CopyPaths)
    \/ TransferWrite
    \/ ExternalCreate(CopyPaths, CopyContents)
    \/ Respond

SpecTransfer == Init /\ [][NextTransfer]_vars

(***************************************************************************)
(* The classifier by signature of media_utils.py.  The content of a file   *)
(* is here its bytes, each byte the string of its two hexadecimal digits;   *)
(* a mime type is the pair of its two parts.                                *)
(***************************************************************************)
\* the entries of the dict display signatures, in the order they are written
signature_items ==
    << <<<<"FF","D8","FF">>, <<"image","jpeg">>>>,
       <<<<"89","50","4E","47","0D","0A","1A","0A">>, <<"image","png">>>>,
       <<<<"47","49","46","38">>, <<"image","gif">>>>,
       <<<<"42","4D">>, <<"image","bmp">>>>,
       <<<<"49","49","2A","00">>, <<"image","tiff">>>>,
       <<<<"4D","4D","00","2A">>, <<"image","tiff">>>>,
       <<<<"00","00","00","18","66","74","79","70">>, <<"video","mp4">>>>,
       <<<<"00","00","00","1C","66","74","79","70">>, <<"video","mp4">>>>,
       <<<<"00","00","00","20","66","74","79","70">>, <<"video","mp4">>>>,
       <<<<"52","49","46","46">>, <<"video","avi">>>>,
       <<<<"00","00","01","BA">>, <<"video","mpeg">>>>,
       <<<<"00","00","01","B3">>, <<"video","mpeg">>>>,
       <<<<"49","44","33">>, <<"audio","mp3">>>>,
       <<<<"FF","FB">>, <<"audio","mp3">>>>,
       <<<<"FF","F3">>, <<"audio","mp3">>>>,
       <<<<"FF","F2">>, <<"audio","mp3">>>>,
       <<<<"52","49","46","46">>, <<"audio","wav">>>>,
       <<<<"4F","67","67","53">>, <<"audio","ogg">>>>,
       <<<<"66","4C","61","43">>, <<"audio","flac">>>> >>

\* the dict a display with the entries items makes, as the sequence of its
\* (key, value) in the order of iteration: a key written twice keeps the
\* place of its first entry and the value of its last
dict_display(items) ==
    LET n       == Len(items)
        value(k) == items[CHOOSE j \in 1..n :
                            /\ items[j][1] = k
                            /\ \A l \in (j + 1)..n : items[l][1] # k][2]
        first   == {i \in 1..n : \A j \in 1..(i - 1) : items[j][1] # items[i][1]}
        place(r) == CHOOSE i \in first : Cardinality({j \in first : j <= i}) = r
    IN  [r \in 1..Cardinality(first) |-> <<items[place(r)][1], value(items[place(r)][1])>>]

signatures == dict_display(signature_items)

\* header.startswith(signature)
startswith(header, signature) ==
    /\ Len(header) >= Len(signature)
    /\ SubSeq(header, 1, Len(signature)) = signature

\* the number of bytes read for the signature
HEADER_BYTES == 16

\* detect_file_type(file_path): the category of the first signature, in the
\* order of the dict, that the first 16 bytes start with; without one, or
\* when the file cannot be opened, the category of the extension (the lists
\* of extensions are those of fs_server.py)
detect_file_type(f, p) ==
    LET header == IF isfile(f, p)
                  THEN SubSeq(f[p].content, 1,
                              IF Len(f[p].content) < HEADER_BYTES
                              THEN Len(f[p].content) ELSE HEADER_BYTES)
                  ELSE <<>>
        hits   == {i \in 1..Len(signatures) : startswith(header, signatures[i][1])}
        ext    == lower(splitext_ext(p))
    IN  IF isfile(f, p) /\ hits # {}
        THEN signatures[CHOOSE i \in hits : \A j \in hits : i <= j][2][1]
        ELSE IF ext \in IMAGE_EXTS THEN "image"
        ELSE IF ext \in VIDEO_EXTS THEN "video"
        ELSE IF ext \in AUDIO_EXTS THEN "audio"
        ELSE "unknown"

clip_avi == <<"c","l","i","p",".","a","v","i">>

\* the paths classified
DetectPaths == {<<a_txt>>, <<c_jpg>>, <<clip_avi>>, <<sub>>}

\* the bytes of the files classified: every signature alone, followed by a
\* byte and cut short by one; the start of an AVI and of a WAVE file; no
\* byte at all and text
DetectContents ==
    {signature_items[i][1] : i \in 1..Len(signature_items)}
    \cup {signature_items[i][1] \o <<"00">> : i \in 1..Len(signature_items)}
    \cup {SubSeq(signature_items[i][1], 1, Len(signature_items[i][1]) - 1) :
            i \in 1..Len(signature_items)}
    \cup {<<"52","49","46","46","24","00","00","00","41","56","49","20",
            "4C","49","53","54","00">>,
          <<"52","49","46","46","24","00","00","00","57","41","56","45",
            "66","6D","74","20","00">>,
          <<>>, <<"61","62">>}

\* the states in which the classifiers are called: no file, or one file
InitDetect ==
    /\ fs \in {[p \in {Root} |-> Dir]}
              \cup {Put([p \in {Root} |-> Dir], q, File(c)) :
                      q \in DetectPaths, c \in DetectContents}
    /\ call = Idle
    /\ pre = fs
    /\ res = [idle |-> TRUE]

DetectFileType(P) ==
    \E p \in P :
        Done([op |-> "detect_file_type", path |-> p],
             [fs |-> fs, res |-> [type |-> detect_file_type(fs, p)]])

GetFileType(P) ==
    \E p \in P :
        Done([op |-> "get_file_type", path |-> p],
             [fs |-> fs, res |-> [type |-> get_file_type(p)]])

NextDetect ==
    \/ DetectFileType(DetectPaths)
    \/ GetFileType(DetectPaths)
    \/ Respond

SpecDetect == InitDetect /\ [][NextDetect]_vars

(***************************************************************************)
(* The claims about the mutation tools, checked under Spec.                *)
(***************************************************************************)
Succeeded == "success" \in DOMAIN res

Failed_with(msg) == res = [error |-> msg]

\* the paths from p up to the root, p included
Ancestors(p) == {SubSeq(p, 1, n) : n \in 0..Len(p)}

\* no path other than those in S differs between the filesystems f and g
SameExcept(f, g, S) ==
    /\ (DOMAIN f) \ S = (DOMAIN g) \ S
    /\ \A q \in (DOMAIN f) \ S : f[q] = g[q]

HasCR(c) == \E i \in 1..Len(c) : c[i] = "CR"

\* C1 as stated: for an existing regular source and any existing
\* destination, copy_file with overwrite=false returns the already-exists
\* error, and with overwrite=true succeeds and leaves the destination holding
\* the content of the source.
C1_CopyOntoExisting_AsStated ==
    (call.op = "copy_file" /\ isfile(pre, call.source) /\ exists(pre, call.destination))
    => IF ~call.overwrite
       THEN Failed_with("Destination file already exists")
       ELSE /\ Succeeded
            /\ isfile(fs, call.destination)
            /\ fs[call.destination].content = pre[call.source].content

\* C1 amended: for an existing regular source and any existing destination,
\* copy_file with overwrite=false returns the already-exists error; with
\* overwrite=true and a destination that is an existing
\* regular file other than the source it succeeds and leaves the destination
\* holding the content of the source.
C1_CopyOntoExisting ==
    (call.op = "copy_file" /\ isfile(pre, call.source) /\ exists(pre, call.destination))
    => IF ~call.overwrite
       THEN Failed_with("Destination file already exists")
       ELSE (isfile(pre, call.destination) /\ call.destination # call.source)
            => /\ Succeeded
               /\ isfile(fs, call.destination)
               /\ fs[call.destination].content = pre[call.source].content

C1_Witness ==
    /\ call.op = "copy_file" /\ call.overwrite /\ Succeeded
    /\ isfile(pre, call.source) /\ isfile(pre, call.destination)
    /\ call.destination # call.source
    /\ pre[call.destination].content # pre[call.source].content
    /\ fs[call.destination].content = pre[call.source].content

\* what the claims of C2 expect read_text_file to return after the write
\* that led to the current state: the text written, after the text the file
\* held when the write appended
C2_Expected ==
    (IF call.append /\ isfile(pre, call.path) THEN pre[call.path].content ELSE <<>>)
    \o call.content

C2_ReadBack == read_text_file(fs, call.path, <<>>).res

\* C2 as stated: for every path and all contents X and Y, write(path, X)
\* followed by read(path) returns content X, and a further
\* write(path, Y, append=true) followed by read(path) returns XY.
C2_RoundTrip_AsStated ==
    call.op = "write_text_file"
    => /\ "content" \in DOMAIN C2_ReadBack
       /\ C2_ReadBack.content = C2_Expected

\* C2 amended: for every path whose category is text, code or document and
\* at which the write succeeds, and all contents X and Y without carriage
\* returns, write(path, X) followed by read(path) returns content X, and a
\* further write(path, Y, append=true) followed by read(path) returns XY.
C2_RoundTrip ==
    (/\ call.op = "write_text_file"
     /\ Succeeded
     /\ get_file_type(call.path) \in {"text", "code", "document"}
     /\ ~HasCR(C2_Expected))
    => /\ "content" \in DOMAIN C2_ReadBack
       /\ C2_ReadBack.content = C2_Expected
       /\ C2_ReadBack.note = <<>>

C2_Witness ==
    /\ call.op = "write_text_file" /\ call.append /\ Succeeded
    /\ isfile(pre, call.path)
    /\ pre[call.path].content # <<>> /\ call.content # <<>>
    /\ ~HasCR(C2_Expected)
    /\ "content" \in DOMAIN C2_ReadBack
    /\ C2_ReadBack.content = pre[call.path].content \o call.content

\* C3: delete_file on a path that is no existing regular file returns the
\* not-found error and leaves the tree unchanged; on a regular file it
\* removes that file and nothing else, and returns the name and the size the
\* file had.
C3_Delete ==
    call.op = "delete_file"
    => IF ~isfile(pre, call.path)
       THEN Failed_with("File not found") /\ fs = pre
       ELSE /\ Succeeded
            /\ ~exists(fs, call.path)
            /\ SameExcept(fs, pre, {call.path})
            /\ res.deleted_file.name = call.path[Len(call.path)]
            /\ res.deleted_file.size = Len(pre[call.path].content)

C3_Witness ==
    /\ call.op = "delete_file" /\ Succeeded
    /\ Len(pre[call.path].content) > 0
    /\ Files(fs) # {}
    /\ \E d \in DOMAIN fs : d # Root /\ isdir(fs, d)

\* C4 as stated: move_file has the guards of copy_file, and after every call
\* that reports success the source is no file any more and the destination is
\* a regular file holding the content the source had.
C4_Move_AsStated ==
    call.op = "move_file"
    => /\ ~isfile(pre, call.source) => Failed_with("Source file not found")
       /\ (isfile(pre, call.source) /\ exists(pre, call.destination) /\ ~call.overwrite)
          => Failed_with("Destination file already exists")
       /\ Succeeded
          => /\ ~isfile(fs, call.source)
             /\ isfile(fs, call.destination)
             /\ fs[call.destination].content = pre[call.source].content

\* where a successful move leaves the file: inside the destination when that
\* was a directory, at the destination otherwise
C4_Target ==
    IF isdir(pre, call.destination)
    THEN Append(call.destination, call.source[Len(call.source)])
    ELSE call.destination

\* C4 amended: move_file has the guards of copy_file; after every call that
\* reports success with a destination that is neither the source itself nor
\* an existing directory, the source is no file any more and the destination
\* is a regular file holding the content the source had.  (A successful move
\* onto the source itself changes nothing; one onto an existing directory
\* puts the file inside it under its base name.)
C4_Move ==
    call.op = "move_file"
    => /\ ~isfile(pre, call.source) => Failed_with("Source file not found")
       /\ (isfile(pre, call.source) /\ exists(pre, call.destination) /\ ~call.overwrite)
          => Failed_with("Destination file already exists")
       /\ (Succeeded /\ call.destination # call.source /\ ~isdir(pre, call.destination))
          => /\ ~isfile(fs, call.source)
             /\ isfile(fs, call.destination)
             /\ fs[call.destination].content = pre[call.source].content
       /\ (Succeeded /\ call.destination = call.source) => fs = pre
       /\ (Succeeded /\ isdir(pre, call.destination))
          => /\ ~isfile(fs, call.source)
             /\ isfile(fs, C4_Target)
             /\ fs[C4_Target].content = pre[call.source].content

C4_Witness ==
    /\ call.op = "move_file" /\ Succeeded /\ call.overwrite
    /\ isfile(pre, call.destination) /\ call.destination # call.source
    /\ pre[call.destination].content # pre[call.source].content
    /\ ~exists(fs, call.source)
    /\ fs[call.destination].content = pre[call.source].content

\* C5 as stated: for every path p, create_directory(p) called twice in a row
\* reports success both times, the second call changes nothing, and p exists
\* as a directory afterwards.
C5_CreateTwice_AsStated ==
    call.op = "create_directory"
    => /\ Succeeded
       /\ create_directory(fs, call.path) = [fs |-> fs, res |-> res]
       /\ isdir(fs, call.path)

\* C5 amended: for every path p that neither is nor lies beneath a regular
\* file, create_directory(p) reports success; whenever it reports success p
\* and its parents exist as directories, and a call of create_directory(p)
\* that finds p a directory, as the second of two calls in a row does,
\* reports success and changes nothing.
C5_CreateTwice ==
    call.op = "create_directory"
    => /\ (\A q \in Ancestors(call.path) : ~isfile(pre, q)) => Succeeded
       /\ Succeeded
          => /\ \A q \in Ancestors(call.path) : isdir(fs, q)
             /\ create_directory(fs, call.path) = [fs |-> fs, res |-> res]
       /\ isdir(pre, call.path) => Succeeded /\ fs = pre

C5_Witness ==
    /\ call.op = "create_directory" /\ Succeeded
    /\ Len(call.path) = 2
    /\ isdir(pre, call.path)
    /\ fs = pre

(***************************************************************************)
(* The claims about scan and search, checked under SpecQuery.              *)
(***************************************************************************)
\* the paths of the records rs
PathsOf(rs) == {rs[i].path : i \in 1..Len(rs)}

\* the regular files a scan of d has to report
FilesUnder(f, d, recursive) ==
    {p \in Files(f) : IF recursive
                      THEN Len(p) > Len(d) /\ SubSeq(p, 1, Len(d)) = d
                      ELSE p # Root /\ dirname(p) = d}

\* C6: the records search_file_contents returns are never more than
\* max_results, and no file is among them twice, recursive or not.
C6_ContentSearchCap ==
    (call.op = "search_file_contents" /\ "matches" \in DOMAIN res)
    => /\ Len(res.matches) <= call.max_results
       /\ \A i, j \in 1..Len(res.matches) :
              i # j => res.matches[i].path # res.matches[j].path

\* the search is recursive, stops at a cap of at least one, and a cap one
\* higher would have let another file in
C6_Witness ==
    /\ call.op = "search_file_contents" /\ "matches" \in DOMAIN res
    /\ call.recursive
    /\ call.max_results >= 1
    /\ Len(res.matches) = call.max_results
    /\ Len(search_file_contents(pre, call.directory, call.query, call.recursive,
                                call.file_types, call.max_results + 1,
                                call.ord).list) > call.max_results

\* C7: every record of a scan with a category filter has a category of the
\* filter, recursive or not.
C7_ScanFilter ==
    (call.op = "scan_directory" /\ "files" \in DOMAIN res /\ call.file_types # <<>>)
    => \A i \in 1..Len(res.files) : res.files[i].type \in call.file_types[1]

C7_Witness ==
    /\ call.op = "scan_directory" /\ "files" \in DOMAIN res
    /\ call.file_types = <<{"image", "code"}>>
    /\ {res.files[i].type : i \in 1..Len(res.files)} = {"image", "code"}
    /\ PathsOf(res.files) # FilesUnder(pre, call.directory, call.recursive)

\* C8 as stated: a scan whose filter is None or the empty list returns the
\* records of all files of all categories, the same in both cases.
C8_NoFilter_AsStated ==
    (call.op = "scan_directory" /\ "files" \in DOMAIN res
     /\ call.file_types \in {<<>>, <<{}>>})
    => /\ PathsOf(res.files) = FilesUnder(pre, call.directory, call.recursive)
       /\ res.files = scan_directory_tool(pre, call.directory, call.recursive, <<>>,
                                          call.ord).res.files

\* name contains q, letter case ignored
NameHasQuery(name, q) ==
    \E i \in 0..(Len(name) - Len(q)) :
        \A k \in 1..Len(q) : lower_char(name[i + k]) = lower_char(q[k])

\* the records of rs whose name contains q, letter case ignored
RECURSIVE RecordsNamed(_, _)
RecordsNamed(rs, q) ==
    IF rs = <<>> THEN <<>>
    ELSE (IF NameHasQuery(rs[1].name, q) THEN <<rs[1]>> ELSE <<>>)
         \o RecordsNamed(Tail(rs), q)

\* C9: search_files returns exactly the records of scan_directory (same
\* root, recursive and filter) whose base name contains the query, letter
\* case ignored; queries that differ in letter case only return the same.
C9_NameSearch ==
    (call.op = "search_files" /\ "matches" \in DOMAIN res)
    => /\ res.matches
          = RecordsNamed(scan_directory_tool(pre, call.directory, call.recursive,
                                             call.file_types, call.ord).res.files,
                         call.query)
       /\ \A q \in NameQueries :
              (Len(q) = Len(call.query) /\ NameHasQuery(q, call.query))
              => search_files_tool(pre, call.directory, q, call.recursive,
                                   call.file_types, call.ord).res.matches
                 = res.matches

\* the query is in upper case, it finds a name by its lower-case letter and
\* another by its upper-case letter, and it leaves a file out
C9_Witness ==
    /\ call.op = "search_files" /\ "matches" \in DOMAIN res
    /\ call.query = <<"T">>
    /\ \E i \in 1..Len(res.matches) : res.matches[i].name = a_txt
    /\ \E i \in 1..Len(res.matches) : res.matches[i].name = T_go
    /\ PathsOf(res.matches) # FilesUnder(pre, call.directory, call.recursive)

\* C10 as stated: the scan, not recursive, of a directory holding a.txt,
\* b.py and c.jpg has file_count 3 and gives a.txt the category text, b.py
\* the category code and c.jpg the category image.
C10_ScanScenario_AsStated ==
    (/\ call.op = "scan_directory" /\ "files" \in DOMAIN res
     /\ ~call.recursive /\ call.directory = Root /\ call.file_types = <<>>
     /\ (DOMAIN pre) \ {Root} = {<<a_txt>>, <<b_py>>, <<c_jpg>>}
     /\ Files(pre) = {<<a_txt>>, <<b_py>>, <<c_jpg>>})
    => /\ res.file_count = 3
       /\ \A i \in 1..Len(res.files) :
              res.files[i].type = CASE res.files[i].name = a_txt -> "text"
                                    [] res.files[i].name = b_py -> "code"
                                    [] OTHER -> "image"

(***************************************************************************)
(* The claims about the classifier, get_file_metadata_tool, list_directory *)
(* and the unfiltered scan, checked under SpecInspect.                     *)
(***************************************************************************)
Categories ==
    {"image", "video", "audio", "text", "code", "document", "spreadsheet",
     "presentation", "data", "archive", "executable", "unknown"}

\* the records of the payload: those of its lists files and matches, or the
\* payload itself when it is one record
RecordsOf(r) ==
    IF "files" \in DOMAIN r THEN {r.files[i] : i \in 1..Len(r.files)}
    ELSE IF "matches" \in DOMAIN r THEN {r.matches[i] : i \in 1..Len(r.matches)}
    ELSE {r}

\* C11 as stated: the category get_file_type gives a path, and so the type
\* of every record of scan, search, metadata and list_directory, is one of
\* the twelve categories.
C11_ClosedEnum_AsStated ==
    /\ \A p \in DOMAIN fs : get_file_type(p) \in Categories
    /\ \A r \in RecordsOf(res) : "type" \in DOMAIN r => r.type \in Categories

\* C14: whatever tree write, copy, move, delete and create_directory have
\* left, a recursive scan without filter returns one record for every
\* regular file anywhere under the root and no other, a scan that is not
\* recursive one record for every regular file that is an immediate child of
\* the root and no other, and the second result lies within the first.
C14_ScanComplete ==
    (call.op = "scan_directory" /\ "files" \in DOMAIN res /\ call.file_types = <<>>)
    => /\ PathsOf(res.files) = FilesUnder(pre, call.directory, call.recursive)
       /\ Cardinality(PathsOf(res.files)) = Len(res.files)
       /\ \A i \in 1..Len(res.files) :
              /\ res.files[i].name = res.files[i].path[Len(res.files[i].path)]
              /\ "error" \notin DOMAIN res.files[i]
       /\ PathsOf(scan_directory_tool(pre, call.directory, FALSE, <<>>, call.ord).res.files)
          \subseteq
          PathsOf(scan_directory_tool(pre, call.directory, TRUE, <<>>, call.ord).res.files)

\* a recursive scan of the root finds a file in it and a file below it
C14_Witness ==
    /\ call.op = "scan_directory" /\ "files" \in DOMAIN res
    /\ call.recursive /\ call.directory = Root
    /\ \E i, j \in 1..Len(res.files) :
           Len(res.files[i].path) = 1 /\ Len(res.files[j].path) = 2
    /\ FilesUnder(pre, Root, FALSE) # FilesUnder(pre, Root, TRUE)

\* the size of the file at p: its characters, two bytes for the capital I
\* with a dot above
SizeAt(p) ==
    Len(pre[p].content) + Cardinality({i \in 1..Len(pre[p].content) : pre[p].content[i] = "I_DOT"})

\* C15: get_file_metadata_tool returns the not-found error for a path that
\* is no regular file (missing, or a directory), and for a regular file a
\* record with the size of the file and the base name of the path.
C15_Metadata ==
    call.op = "get_file_metadata"
    => IF call.path \notin Files(pre)
       THEN Failed_with("File not found")
       ELSE /\ "error" \notin DOMAIN res
            /\ res.size = SizeAt(call.path)
            /\ res.name = call.path[Len(call.path)]
            /\ res.path = call.path

C15_Witness ==
    /\ call.op = "get_file_metadata"
    /\ call.path \in Files(pre) /\ Len(call.path) = 2
    /\ res.size = 2
    /\ \E d \in DOMAIN pre : d # Root /\ isdir(pre, d)

\* the children of the directory d that are of the kind k
ChildrenOf(d, k) == {p \in DOMAIN pre : p # Root /\ dirname(p) = d /\ pre[p].kind = k}

\* C17: list_directory on a directory returns every immediate child that is
\* a regular file once in files, with its size and category, every immediate
\* child that is a directory once in directories, with name and path only,
\* nothing from below, nothing in both lists, and the lengths of the lists
\* as file_count and directory_count; on any other path it returns an error.
C17_ListDirectory ==
    call.op = "list_directory"
    => IF ~isdir(pre, call.directory)
       THEN Failed_with("Directory not found")
       ELSE /\ PathsOf(res.files) = ChildrenOf(call.directory, "file")
            /\ Cardinality(PathsOf(res.files)) = Len(res.files)
            /\ \A i \in 1..Len(res.files) :
                   res.files[i]
                   = [name |-> res.files[i].path[Len(res.files[i].path)],
                      path |-> res.files[i].path,
                      size |-> SizeAt(res.files[i].path),
                      type |-> get_file_type(res.files[i].path)]
            /\ PathsOf(res.directories) = ChildrenOf(call.directory, "dir")
            /\ Cardinality(PathsOf(res.directories)) = Len(res.directories)
            /\ \A i \in 1..Len(res.directories) :
                   res.directories[i]
                   = [name |-> res.directories[i].path[Len(res.directories[i].path)],
                      path |-> res.directories[i].path]
            /\ PathsOf(res.files) \cap PathsOf(res.directories) = {}
            /\ res.file_count = Len(res.files)
            /\ res.directory_count = Len(res.directories)

\* the root is listed with two files and a directory that is not empty
C17_Witness ==
    /\ call.op = "list_directory" /\ call.directory = Root
    /\ "files" \in DOMAIN res
    /\ res.file_count = 2 /\ res.directory_count = 1
    /\ \E p \in DOMAIN pre : Len(p) = 2

(***************************************************************************)
(* The claims about the match of a content search and about the preview,   *)
(* checked under SpecText.                                                 *)
(***************************************************************************)
\* the text of the file at p, as it was read
TextAt(p) == read_translate(pre[p].content)

\* q occurs in text at the 0-based index k, letter case ignored
OccursAt(text, q, k) ==
    /\ k + Len(q) <= Len(text)
    /\ \A j \in 1..Len(q) : lower_char(text[k + j]) = lower_char(q[j])

\* the 0-based index of the first occurrence of q in text, letter case
\* ignored
FirstOccurrence(text, q) ==
    CHOOSE k \in 0..Len(text) :
        /\ OccursAt(text, q, k)
        /\ \A i \in 0..(k - 1) : ~OccursAt(text, q, i)

\* C12 as stated: the match of every record of search_file_contents
\* describes the first occurrence of the query in the text, letter case
\* ignored: context is the text from at most 50 characters before the
\* occurrence to at most 50 characters after its end, and so holds the
\* matched text, and line is 1 plus the number of line feeds before the
\* occurrence.
C12_MatchRecord_AsStated ==
    (call.op = "search_file_contents" /\ "matches" \in DOMAIN res)
    => \A i \in 1..Len(res.matches) :
          LET text == TextAt(res.matches[i].path)
              q    == call.query
              k    == FirstOccurrence(text, q)
              from == IF k > CONTEXT_CHARS THEN k - CONTEXT_CHARS ELSE 0
              to   == IF k + Len(q) + CONTEXT_CHARS < Len(text)
                      THEN k + Len(q) + CONTEXT_CHARS ELSE Len(text)
          IN  /\ \E j \in 0..Len(text) : OccursAt(text, q, j)
              /\ res.matches[i].match.context = SubSeq(text, from + 1, to)
              /\ \E j \in 0..Len(res.matches[i].match.context) :
                     OccursAt(res.matches[i].match.context, q, j)
              /\ res.matches[i].match.line
                 = 1 + Cardinality({j \in 1..k : text[j] = "LF"})

\* the number of lines of text: its line feeds, and the line after the last
\* of them if there is one
LinesOf(text) ==
    Cardinality({i \in 1..Len(text) : text[i] = "LF"})
    + (IF text # <<>> /\ text[Len(text)] # "LF" THEN 1 ELSE 0)

\* get_file_metadata previews the path p
Previewed(p) ==
    /\ get_file_type(p) \in {"text", "code", "document"}
    /\ lower(splitext_ext(p)) \in preview_extensions

\* C16: the metadata record of a file of the category text, code or
\* document with an extension of the allow-list has as preview the first
\* min(1000, length) characters of the text of the file (as it is read in
\* text mode), followed by the truncation marker when the 1000 characters
\* were reached, and as line_count the number of lines of the file; the
\* record of any other file has neither preview nor line_count.
C16_Preview ==
    (call.op = "get_file_metadata" /\ call.path \in Files(pre))
    => IF Previewed(call.path)
       THEN /\ {"preview", "line_count"} \subseteq DOMAIN res
            /\ LET text == TextAt(call.path)
                   n    == IF Len(text) < PREVIEW_CHARS THEN Len(text) ELSE PREVIEW_CHARS
               IN  /\ SubSeq(res.preview, 1, n) = SubSeq(text, 1, n)
                   /\ Len(res.preview) = IF n = PREVIEW_CHARS THEN n + 1 ELSE n
                   /\ n = PREVIEW_CHARS => res.preview[n + 1] = "... (truncated)"
                   /\ res.line_count = LinesOf(text)
       ELSE {"preview", "line_count", "preview_error"} \cap DOMAIN res = {}

\* a text of more than 1000 characters is cut and marked
C16_Witness ==
    /\ call.op = "get_file_metadata" /\ call.path \in Files(pre)
    /\ Previewed(call.path)
    /\ Len(pre[call.path].content) > PREVIEW_CHARS
    /\ Len(res.preview) = PREVIEW_CHARS + 1
    /\ res.preview[PREVIEW_CHARS + 1] = "... (truncated)"

(***************************************************************************)
(* The claims about failures and about collections, checked under          *)
(* SpecCollection.                                                         *)
(***************************************************************************)
\* C13 as stated: every tool returns a value for every input and every
\* state of the filesystem; no failure leaves the tool as an exception.
C13_NoException_AsStated == "exception" \notin DOMAIN res

\* where create_collection puts the collection of the last call and its
\* manifest
C18_Directory == join_name(COLLECTIONS_DIR, call.name)

C18_Manifest == join(C18_Directory, collection_json)

\* the metadata records of the entries of file_paths that are regular files
\* in the filesystem f, in the order of file_paths
RECURSIVE MemberRecords(_, _)
MemberRecords(f, file_paths) ==
    IF file_paths = <<>> THEN <<>>
    ELSE (IF file_paths[1] \in Files(f)
          THEN <<get_file_metadata_tool(f, file_paths[1]).res>> ELSE <<>>)
         \o MemberRecords(f, Tail(file_paths))

\* the collection directory holds the manifest, its files list is the list
\* of the records of the regular files among file_paths, in input order, and
\* file_count is its length
C18_Left ==
    /\ isdir(fs, C18_Directory)
    /\ isfile(fs, C18_Manifest)
    /\ fs[C18_Manifest].content[1].files = MemberRecords(pre, call.file_paths)
    /\ "file_count" \in DOMAIN res
    /\ res.file_count = Len(fs[C18_Manifest].content[1].files)

C19_UnderRoot_AsStated ==
    call.op = "create_collection"
    => \A p \in (DOMAIN fs) \cup (DOMAIN pre) :
          (p \notin DOMAIN pre \/ p \notin DOMAIN fs \/ fs[p] # pre[p])
          => (Len(p) > Len(COLLECTIONS_DIR)
              /\ SubSeq(p, 1, Len(COLLECTIONS_DIR)) = COLLECTIONS_DIR)

(***************************************************************************)
(* The claim about a scan with another process at work, checked under      *)
(* SpecRace.                                                               *)
(***************************************************************************)
\* the records of rs that are an error, and those of a file
ErrorRecords(rs) == {i \in 1..Len(rs) : "error" \in DOMAIN rs[i]}

FileRecords(rs) == {i \in 1..Len(rs) : "path" \in DOMAIN rs[i]}

\* the paths of the records of rs that are records of a file
PathsFound(rs) == {rs[i].path : i \in FileRecords(rs)}

\* a scan of a directory has run to its end beside the other process
RaceOver ==
    /\ call.op = "scan_directory" /\ "touched" \in DOMAIN call
    /\ isdir(pre, call.directory)

\* the scan returned its list, every record of a file is the only one of a
\* file that was listed, and every file listed that the other process left
\* alone has the record it has without the other process
C20_Undisturbed ==
    /\ "files" \in DOMAIN res
    /\ "exception" \notin DOMAIN res
    /\ res.file_count = Len(res.files)
    /\ FileRecords(res.files) \cup ErrorRecords(res.files) = 1..Len(res.files)
    /\ Cardinality(PathsFound(res.files)) = Cardinality(FileRecords(res.files))
    /\ PathsFound(res.files) \subseteq call.seen
    /\ \A p \in call.seen \ call.touched :
           \E i \in 1..Len(res.files) : res.files[i] = get_file_metadata(pre, p)
    /\ \A i \in FileRecords(res.files) :
           /\ res.files[i].name = res.files[i].path[Len(res.files[i].path)]
           /\ res.files[i].type = get_file_type(res.files[i].path)

\* C20 as stated: when another process deletes or writes files while a scan
\* runs, the scan returns its list and no exception; every file it listed
\* surfaces as a record, with an error field or with stale data if the file
\* was changed, and the records of the other files are as without the other
\* process.
C20_Race_AsStated ==
    RaceOver
    => /\ C20_Undisturbed
       /\ Len(res.files) = Cardinality(call.seen)
       /\ call.seen \ PathsFound(res.files) \subseteq call.touched

\* C20 amended: when another process deletes or writes files while a scan
\* runs, the scan returns its list and no exception; every file it listed
\* surfaces as a record, with an error field or with stale data if the file
\* was changed, except that a scan that is not recursive leaves out a file
\* deleted before its test for a regular file; the records of the other
\* files are as without the other process.
C20_Race ==
    RaceOver
    => /\ C20_Undisturbed
       /\ call.seen \ PathsFound(res.files) \subseteq call.touched
       /\ Cardinality(ErrorRecords(res.files))
          <= Cardinality(call.seen \ PathsFound(res.files))
       /\ call.recursive => Len(res.files) = Cardinality(call.seen)
       /\ \A p \in call.seen \ PathsFound(res.files) : p \notin Files(fs)

\* a recursive scan returns the error record of a file deleted after it was
\* listed, the record of a file left alone, and the record of a file
\* written after the scan began
C20_Witness ==
    /\ RaceOver /\ call.recursive
    /\ ErrorRecords(res.files) # {}
    /\ PathsFound(res.files) \ call.touched # {}
    /\ PathsFound(res.files) \cap call.touched # {}

(***************************************************************************)
(* The claims about the content search beside another process, checked     *)
(* under SpecSearch.                                                       *)
(***************************************************************************)
\* a content search has run to its end beside the other process
SearchOver == call.op = "search_file_contents" /\ isdir(pre, call.directory)

\* the path p is a candidate of a content search without a filter
Candidate(p) ==
    \/ get_file_type(p) \in {"text", "code", "document"}
    \/ lower(splitext_ext(p)) \in searchable_extensions

\* C21: in search_file_contents a candidate that cannot be opened (here: one
\* that the other process removed after it was listed) contributes no record
\* and no error and does not stop the search: as long as the directory
\* searched could be listed the result is a list, none of its records is an
\* error or the record of a file whose open failed, and every listed
\* candidate the other process left alone whose content holds the query has
\* its record unless max_results records were collected.
C21_UnreadableSkipped ==
    SearchOver /\ call.directory \notin call.touched =>
        /\ call.exc = ""
        /\ \A i \in 1..Len(res.matches) :
               /\ "error" \notin DOMAIN res.matches[i]
               /\ res.matches[i].path \notin call.failed
        /\ \/ Len(res.matches) >= call.max_results
           \/ \A p \in call.seen \ call.touched :
                  Candidate(p) /\ contains(lower(fs[p].content), lower(call.query))
                      => p \in PathsOf(res.matches)

\* a search in which the open of a candidate failed and which reports a
\* candidate met before it and one met after it
C21_Witness ==
    /\ SearchOver /\ call.exc = ""
    /\ \E i, j, k \in 1..Len(call.tried) :
           /\ i < j /\ j < k
           /\ call.tried[j] \in call.failed
           /\ call.tried[i] \in PathsOf(res.matches)
           /\ call.tried[k] \in PathsOf(res.matches)

\* C22 as stated: once search_file_contents has collected max_results
\* matches (max_results at least one) it lists no further directory, in
\* recursive mode as in non-recursive mode; that it opens no further file is
\* how visit_file and SearchIsFile leave the loop.
C22_EarlyTermination_AsStated ==
    call.op \in {"searching", "search_file_contents"} /\ call.max_results > 0
        => call.late = {}

\* C24 as stated, for the search tool: a failure of the walk is a top-level
\* error payload, so every payload that is not one carries a list of records
\* and match_count is its length.
C24_TopLevelErrors_AsStated ==
    call.op = "search_file_contents" /\ "matches" \in DOMAIN res =>
        /\ call.exc = ""
        /\ res.match_count = Len(res.matches)

(***************************************************************************)
(* Further claims about the mutation tools, checked under Spec.            *)
(***************************************************************************)
\* C23 as stated: after every copy_file call that reports success the source
\* is still a file with the content it had, the parent directories of the
\* destination exist, the destination path is a regular file with the
\* source's content, and the size returned is the size of that file, which
\* is the size of the source.
C23_CopySuccess_AsStated ==
    call.op = "copy_file" /\ Succeeded =>
        /\ isfile(fs, call.source)
        /\ fs[call.source].content = pre[call.source].content
        /\ \A d \in Ancestors(dirname(call.destination)) : isdir(fs, d)
        /\ isfile(fs, call.destination)
        /\ fs[call.destination].content = pre[call.source].content
        /\ res.size = getsize(fs, call.destination)
        /\ res.size = getsize(pre, call.source)

\* C25 as stated: for every existing file of a textual category, the empty
\* file included, read_text_file with max_lines omitted returns the whole
\* content, and with an integer max_lines >= 0 it returns a success record
\* whose content is the first max_lines lines of the file (all of them when
\* the file has no more), with the truncation note exactly when the file has
\* more than max_lines lines.
C25_ReadLines_AsStated ==
    /\ call.op = "read_text_file" /\ isfile(pre, call.path)
    /\ get_file_type(call.path) \in {"text", "code", "document"}
    /\ (call.max_lines = <<>> \/ call.max_lines[1] >= 0)
    => LET text == read_translate(pre[call.path].content)
           ls   == file_lines(text)
       IN  /\ "content" \in DOMAIN res
           /\ IF call.max_lines = <<>>
              THEN res.content = text /\ res.note = <<>>
              ELSE /\ res.content = join_lines(ls, call.max_lines[1])
                   /\ (res.note # <<>>) <=> (Len(ls) > call.max_lines[1])

\* C28: a copy_file or move_file call whose source is not an existing
\* regular file, or whose destination exists while overwrite is false,
\* returns the error of that check and leaves the whole filesystem as it
\* was: source and destination keep their content and no parent directory
\* of the destination is created.
C28_ErrorsChangeNothing ==
    /\ call.op \in {"copy_file", "move_file"}
    /\ \/ ~isfile(pre, call.source)
       \/ exists(pre, call.destination) /\ ~call.overwrite
    => /\ res = [error |-> IF ~isfile(pre, call.source)
                           THEN "Source file not found"
                           ELSE "Destination file already exists"]
       /\ fs = pre

\* a copy of a missing source to a destination whose parent directory is
\* missing, and so is not made
C28_Witness ==
    /\ call.op = "copy_file"
    /\ ~isfile(pre, call.source)
    /\ ~exists(pre, dirname(call.destination))
    /\ "error" \in DOMAIN res
    /\ ~exists(fs, dirname(call.destination))

(***************************************************************************)
(* A further claim about the preview, checked under SpecText.              *)
(***************************************************************************)
\* C30 as stated: whenever the preview of a metadata record ends with the
\* truncation marker the file holds more than the 1000 characters shown,
\* and for every file of at most 1000 characters, those of exactly 1000
\* included, the preview is the whole content without the marker.
C30_MarkerMeansMore_AsStated ==
    call.op = "get_file_metadata" /\ "preview" \in DOMAIN res =>
        LET text == TextAt(call.path)
        IN  /\ res.preview # <<>> /\ res.preview[Len(res.preview)] = "... (truncated)"
                   => Len(text) > PREVIEW_CHARS
            /\ Len(text) <= PREVIEW_CHARS => res.preview = text

(***************************************************************************)
(* The claim about copy and move beside another process, checked under     *)
(* SpecTransfer.                                                           *)
(***************************************************************************)
\* C29 as stated: copy_file and move_file called with overwrite=false never
\* replace the content of a destination file that exists at the moment the
\* data is written, also when another process creates the destination
\* between the tool's check and its copy or move: the file that process
\* wrote still holds what it wrote.
C29_NoReplace_AsStated ==
    call.op \in {"copy_file", "move_file"} /\ ~call.overwrite =>
        /\ ~call.replaced
        /\ call.written # <<>> =>
               isfile(fs, call.destination)
               /\ fs[call.destination].content = call.written[1]

(***************************************************************************)
(* The claims about the classifiers, checked under SpecDetect.             *)
(***************************************************************************)
\* the first bytes of the file at p
HeaderAt(p) ==
    SubSeq(pre[p].content, 1,
           IF Len(pre[p].content) < HEADER_BYTES THEN Len(pre[p].content)
           ELSE HEADER_BYTES)

\* the form of a RIFF file, its bytes 9 to 12: "avi", "wav", or "" for
\* another form or none
RiffForm(header) ==
    IF Len(header) < 12 THEN ""
    ELSE IF SubSeq(header, 9, 12) = <<"41","56","49","20">> THEN "avi"
    ELSE IF SubSeq(header, 9, 12) = <<"57","41","56","45">> THEN "wav"
    ELSE ""

\* C26 as stated: for every file whose first 16 bytes begin with a prefix of
\* the signature table, whatever its extension, detect_file_type gives the
\* category the table declares for that signature: image for JPEG, PNG,
\* GIF, BMP and TIFF, video for the MP4 variants, AVI and MPEG, audio for
\* MP3, WAV, OGG and FLAC.  Of the two entries with the prefix RIFF the one
\* of the file's form is meant: AVI for an AVI file, WAV for a WAVE file.
C26_SignatureFirst_AsStated ==
    call.op = "detect_file_type" /\ isfile(pre, call.path) =>
        \A i \in 1..Len(signature_items) :
            LET signature == signature_items[i][1]
                mime_type == signature_items[i][2]
            IN  /\ startswith(HeaderAt(call.path), signature)
                /\ signature = <<"52","49","46","46">>
                       => RiffForm(HeaderAt(call.path)) = mime_type[2]
                => res.type = mime_type[1]

\* C27 as stated: a file that cannot be read, here a path where no file is,
\* is classified as unknown by get_file_type and by detect_file_type,
\* whatever its extension.
C27_UnreadableUnknown_AsStated ==
    call.op \in {"get_file_type", "detect_file_type"} /\ ~isfile(pre, call.path)
        => res.type = "unknown"

====
